---- MODULE Spec2Model ----
(***************************************************************************)
(* A model of pygapa's JPAC2-10 particle codec (src/jsystem/typedchunk.py  *)
(* and src/jsystem/jpac210.py) and of the editor handlers of src/pygapa.py *)
(* that mutate the decoded data.                                           *)
(*                                                                         *)
(* Python integers are unbounded.  A flag word is therefore kept as a pair *)
(* [hi, lo] standing for hi * 65536 + lo with 0 <= lo < 65536; hi may be   *)
(* negative, which is Python's two's complement view of a negative int.    *)
(* Bytes are integers 0..255 and buffers are sequences of bytes.           *)
(***************************************************************************)
EXTENDS Integers, Sequences, FiniteSets, TLC

VARIABLES
    word,       \* a flag word under test: [kind, val]
    flagObs,    \* what the last operation on the flag word did
    writes,     \* number of set_val_flag calls made so far
    shape,      \* a JPABaseShape under test
    shapeObs,   \* what the last operation on the base shape did
    res,        \* a JPAResource
    resObs,     \* what the last operation on the resource did
    cont,       \* a JParticlesContainer
    contObs     \* what the last operation on the container did

flagVars == <<word, flagObs, writes>>
shapeVars == <<shape, shapeObs>>
resVars == <<res, resObs>>
contVars == <<cont, contObs>>
vars == <<word, flagObs, writes, shape, shapeObs, res, resObs, cont, contObs>>

\* The variables an operation on one object leaves alone.
notFlagVars == <<shapeVars, resVars, contVars>>
notShapeVars == <<flagVars, resVars, contVars>>
notResVars == <<flagVars, shapeVars, contVars>>
notContVars == <<flagVars, shapeVars, resVars>>

\* The objects a specification does not construct.
NoFlagWord == word = <<>> /\ flagObs = <<>> /\ writes = 0
NoShape == shape = <<>> /\ shapeObs = <<>>
NoResource == res = <<>> /\ resObs = <<>>
NoContainer == cont = <<>> /\ contObs = <<>>

(***************************************************************************)
(* Bounds of the model.                                                    *)
(***************************************************************************)
MaxWrites == 2
MaxEdits == 2
MaxFrames == 2

(***************************************************************************)
(* Python's integer operators on plain integers.  \div floors and % is     *)
(* non-negative, which is the two's complement reading Python uses for     *)
(* >>, & and | on negative numbers.                                        *)
(***************************************************************************)
RECURSIVE BitAnd(_, _)
BitAnd(a, b) ==
    IF a = 0 \/ b = 0 THEN 0
    ELSE IF a = -1 THEN b
    ELSE IF b = -1 THEN a
    ELSE (a % 2) * (b % 2) + 2 * BitAnd(a \div 2, b \div 2)

RECURSIVE BitOr(_, _)
BitOr(a, b) ==
    IF a = 0 THEN b
    ELSE IF b = 0 THEN a
    ELSE IF a = -1 \/ b = -1 THEN -1
    ELSE (IF a % 2 = 1 \/ b % 2 = 1 THEN 1 ELSE 0) + 2 * BitOr(a \div 2, b \div 2)

BitNot(a) == (0 - a) - 1

(***************************************************************************)
(* Unbounded integers as pairs.                                            *)
(***************************************************************************)
Half == 256 * 256

Big(hi, lo) == [hi |-> hi, lo |-> lo]

BigOf(n) == Big(n \div Half, n % Half)

BigAnd(x, y) == Big(BitAnd(x.hi, y.hi), BitAnd(x.lo, y.lo))

BigOr(x, y) == Big(BitOr(x.hi, y.hi), BitOr(x.lo, y.lo))

BigNot(x) == Big(BitNot(x.hi), (Half - 1) - x.lo)

\* x << n for 0 <= n <= 16: the bits of the low half that leave it are
\* carried into the high half.
BigShl16(x, n) ==
    Big(x.hi * 2^n + x.lo \div 2^(16 - n), (x.lo % 2^(16 - n)) * 2^n)

\* x << n for 0 <= n <= 32.
BigShl(x, n) ==
    IF n > 16 THEN BigShl16(Big(x.hi * Half + x.lo, 0), n - 16)
    ELSE BigShl16(x, n)

\* x >> n for 0 <= n <= 16, rounding down as Python does.
BigShr16(x, n) ==
    Big(x.hi \div 2^n, (x.hi % 2^n) * 2^(16 - n) + x.lo \div 2^n)

\* x >> n for 0 <= n <= 32.
BigShr(x, n) ==
    IF n > 16 THEN BigShr16(BigOf(x.hi), n - 16)
    ELSE BigShr16(x, n)

BigLt(x, y) == x.hi < y.hi \/ (x.hi = y.hi /\ x.lo < y.lo)

BigGt(x, y) == BigLt(y, x)

(***************************************************************************)
(* The enumerations of jpac210.py, as the sets of their members' values.   *)
(* "bool" and "int" are the two built-in flag types.                       *)
(***************************************************************************)
EnumMembers(t) ==
    CASE t = "VolumeType" -> 0 .. 6
      [] t = "FieldType" -> 0 .. 8
      [] t = "FieldAddType" -> 0 .. 2
      [] t = "DirectionType" -> 0 .. 5
      [] t = "RotationType" -> 0 .. 4
      [] t = "PlaneType" -> 0 .. 1
      [] t = "ShapeType" -> 0 .. 10
      [] t = "BlendMode" -> 0 .. 2
      [] t = "BlendFactor" -> 0 .. 9
      [] t = "CompareType" -> 0 .. 7
      [] t = "IndirectTextureMode" -> 0 .. 1
      [] t = "AlphaOperator" -> 0 .. 3
      [] t = "CalcIndexType" -> 0 .. 4
      [] t = "CalcScaleAnimType" -> 0 .. 2

\* Flag.__init__: a descriptor of a flag word.
Flag(name, right_shift, mask, flag_type) ==
    [name |-> name, right_shift |-> right_shift, mask |-> mask, flag_type |-> flag_type]

\* flag.flag_type(x): bool(x), int(x) or the enum lookup, which raises
\* ValueError when x is no member.  val is int() of the result.
Coerce(flag_type, x) ==
    IF flag_type = "bool" THEN [ok |-> TRUE, val |-> IF x # 0 THEN 1 ELSE 0]
    ELSE IF flag_type = "int" THEN [ok |-> TRUE, val |-> x]
    ELSE IF x \in EnumMembers(flag_type) THEN [ok |-> TRUE, val |-> x]
    ELSE [ok |-> FALSE, val |-> x]

\* get_flag_int with the shift forgotten: var & mask.
get_flag_int_noshift(var, right_shift, mask) ==
    BigAnd(var, BigOf(mask)).lo

\* get_flag_int: var >> right_shift & mask.
get_flag_int(var, right_shift, mask) ==
    BigAnd(BigShr(var, right_shift), BigOf(mask)).lo

\* set_flag: result = var & ~(mask << left_shift); result |= (val << left_shift).
set_flag(var, left_shift, mask, val) ==
    BigOr(BigAnd(var, BigNot(BigShl(BigOf(mask), left_shift))),
          BigShl(BigOf(val), left_shift))

\* The upper limit each set_val compares the stored value with.
U8Max == 255
U16Max == 65535
U32Hi == 65535   \* 4294967295 = U32Hi * 65536 + 65535

\* U8Chunk.set_val: the test reads the value stored BEFORE the call.
U8Chunk_set_val(val, new_val) ==
    IF BigGt(val, BigOf(U8Max)) THEN BigOf(U8Max)
    ELSE IF BigLt(val, BigOf(0)) THEN BigOf(0)
    ELSE new_val

\* U16Chunk.set_val.
U16Chunk_set_val(val, new_val) ==
    IF BigGt(val, BigOf(U16Max)) THEN BigOf(U16Max)
    ELSE IF BigLt(val, BigOf(0)) THEN BigOf(0)
    ELSE new_val

\* U32Chunk.set_val.
U32Chunk_set_val(val, new_val) ==
    IF BigGt(val, Big(U32Hi, U16Max)) THEN Big(U32Hi, U16Max)
    ELSE IF BigLt(val, BigOf(0)) THEN BigOf(0)
    ELSE new_val

\* self.set_val of a Flag8Chunk, Flag16Chunk or Flag32Chunk (the method
\* resolution order takes it from U8Chunk, U16Chunk or U32Chunk).
FlagWord_set_val(kind, val, new_val) ==
    CASE kind = "Flag8" -> U8Chunk_set_val(val, new_val)
      [] kind = "Flag16" -> U16Chunk_set_val(val, new_val)
      [] kind = "Flag32" -> U32Chunk_set_val(val, new_val)

\* The range a word of each width can hold.
InRange(kind, val) ==
    /\ ~BigLt(val, BigOf(0))
    /\ CASE kind = "Flag8" -> ~BigGt(val, BigOf(U8Max))
         [] kind = "Flag16" -> ~BigGt(val, BigOf(U16Max))
         [] kind = "Flag32" -> ~BigGt(val, Big(U32Hi, U16Max))

\* FlagChunk.set_val_flag: the new value of the word.
set_val_flag(kind, val, flag, v) ==
    FlagWord_set_val(kind, val, set_flag(val, flag.right_shift, flag.mask, v))

\* FlagChunk.get_val_flag: [ok, val]; ok is FALSE when flag_type raises.
get_val_flag(val, flag) ==
    Coerce(flag.flag_type, get_flag_int(val, flag.right_shift, flag.mask))

(***************************************************************************)
(* pyaurum's big-endian readers, on a buffer and a 0-based offset.         *)
(***************************************************************************)
At(buffer, offset) == buffer[offset + 1]

get_u8(buffer, offset) == At(buffer, offset)

get_u16(buffer, offset) == At(buffer, offset) * 256 + At(buffer, offset + 1)

\* get_u32, as a pair: the value does not fit a 32-bit signed integer.
get_u32(buffer, offset) == Big(get_u16(buffer, offset), get_u16(buffer, offset + 2))

(***************************************************************************)
(* The flag words of three chunks, one of each width, with the descriptors *)
(* their constructors assign, in assignment order.                         *)
(***************************************************************************)
\* JPABaseShape.__init__: self.alpha_compare_flags, a Flag8Chunk.
AlphaCompareFlags ==
    << Flag("AlphaCompareType0", 0, 7, "CompareType"),
       Flag("AlphaOperator", 3, 3, "AlphaOperator"),
       Flag("AlphaCompareType1", 5, 7, "CompareType") >>

\* JPABaseShape.__init__: self.blend_mode_flags, a Flag16Chunk.
BlendModeFlags ==
    << Flag("BlendMode", 0, 3, "BlendMode"),
       Flag("SourceFactor", 2, 15, "BlendFactor"),
       Flag("DestinationFactor", 6, 15, "BlendFactor"),
       Flag("BlendModeFlagsUnk10", 10, 1, "bool"),
       Flag("BlendModeFlagsUnk14", 14, 1, "bool") >>

\* JPADynamicsBlock.__init__: self.flags, a Flag32Chunk.
DynamicsFlags ==
    << Flag("VolumeType", 8, 7, "VolumeType"),
       Flag("FixedDensity", 0, 1, "bool"),
       Flag("FixedInterval", 1, 1, "bool"),
       Flag("InheritScale", 2, 1, "bool"),
       Flag("FollowEmitter", 3, 1, "bool"),
       Flag("FollowEmitterChild", 4, 1, "bool") >>

\* self.assigned_flags of the word of each width.
assigned_flags(kind) ==
    CASE kind = "Flag8" -> AlphaCompareFlags
      [] kind = "Flag16" -> BlendModeFlags
      [] kind = "Flag32" -> DynamicsFlags

FlagKinds == {"Flag8", "Flag16", "Flag32"}

\* The descriptors of a word, as a set.
FlagsOf(kind) == {assigned_flags(kind)[i] : i \in 1 .. Len(assigned_flags(kind))}

\* Buffers a flag word is decoded from (U8Chunk.unpack, U16Chunk.unpack,
\* U32Chunk.unpack): enum fields with and without a member, all bits set.
FlagBuffers(kind) ==
    CASE kind = "Flag8" -> {<<0>>, <<181>>, <<255>>}
      [] kind = "Flag16" -> {<<0, 0>>, <<1, 3>>, <<255, 255>>}
      [] kind = "Flag32" -> {<<0, 0, 0, 0>>, <<0, 0, 7, 21>>, <<255, 255, 255, 255>>}

\* U8Chunk.unpack, U16Chunk.unpack, U32Chunk.unpack of a flag word.
FlagWord_unpack(kind, buffer) ==
    CASE kind = "Flag8" -> BigOf(get_u8(buffer, 0))
      [] kind = "Flag16" -> BigOf(get_u16(buffer, 0))
      [] kind = "Flag32" -> get_u32(buffer, 0)

\* The values callers write: booleans, in-mask values, values wider than
\* a mask, an empty combo box's index -1, and one wide enough to leave 32 bits.
WriteValues == {-1, 0, 1, 3, 8, 256 * 256 * 256}

NoFlag == Flag("", 0, 0, "int")

Obs(op, flag, v, before, ok, got) ==
    [op |-> op, flag |-> flag, v |-> v, before |-> before, ok |-> ok, got |-> got]

\* Flag8Chunk.__init__, Flag16Chunk.__init__, Flag32Chunk.__init__: 0.
FlagInit ==
    /\ word \in {[kind |-> k, val |-> BigOf(0)] : k \in FlagKinds}
    /\ flagObs = Obs("init", NoFlag, 0, BigOf(0), TRUE, 0)
    /\ writes = 0
    /\ NoShape /\ NoResource /\ NoContainer

\* unpack of the flag word from a buffer.
FlagUnpack ==
    \E buffer \in FlagBuffers(word.kind) :
        /\ word' = [word EXCEPT !.val = FlagWord_unpack(word.kind, buffer)]
        /\ flagObs' = Obs("unpack", NoFlag, 0, word.val, TRUE, 0)
        /\ UNCHANGED <<writes, notFlagVars>>

\* FlagChunk.set_val_flag(flag, v).
FlagSet ==
    \E flag \in FlagsOf(word.kind), v \in WriteValues :
        /\ writes < MaxWrites
        /\ word' = [word EXCEPT !.val = set_val_flag(word.kind, word.val, flag, v)]
        /\ flagObs' = Obs("set", flag, v, word.val, TRUE, 0)
        /\ writes' = writes + 1
        /\ UNCHANGED notFlagVars

\* FlagChunk.get_val_flag(flag).
FlagGet ==
    \E flag \in FlagsOf(word.kind) :
        LET r == get_val_flag(word.val, flag) IN
        /\ flagObs' = Obs("get", flag, 0, word.val, r.ok, r.val)
        /\ UNCHANGED <<word, writes, notFlagVars>>

\* set_val_flag(flag, get_val_flag(flag)): the read raises before the write
\* when the flag's type has no member for the bits.
FlagRewrite ==
    \E flag \in FlagsOf(word.kind) :
        LET r == get_val_flag(word.val, flag) IN
        /\ word' = IF r.ok
                   THEN [word EXCEPT !.val = set_val_flag(word.kind, word.val, flag, r.val)]
                   ELSE word
        /\ flagObs' = Obs("rewrite", flag, r.val, word.val, r.ok, r.val)
        /\ UNCHANGED <<writes, notFlagVars>>

FlagNext == FlagUnpack \/ FlagSet \/ FlagGet \/ FlagRewrite

SpecFlag == FlagInit /\ [][FlagNext]_vars

(***************************************************************************)
(* Buffers.  Slice is Python's buffer[a:b] for 0 <= a: it never fails and  *)
(* is cut at the end of the buffer.                                        *)
(***************************************************************************)
Min(a, b) == IF a < b THEN a ELSE b

\* body(v) for the value v of x: x is evaluated once, however often body
\* uses it.
With(x, body(_)) == CHOOSE y \in {body(v) : v \in {x}} : TRUE

Max(a, b) == IF a < b THEN b ELSE a

Slice(buffer, a, b) ==
    IF a >= Min(b, Len(buffer)) THEN <<>>
    ELSE SubSeq(buffer, a + 1, Min(b, Len(buffer)))

Zeros(n) == [i \in 1 .. n |-> 0]

\* Whether struct.unpack_from can read n bytes at offset.
CanRead(buffer, offset, n) == offset >= 0 /\ offset + n <= Len(buffer)

\* The padding left out.
align4_nothing(buffer) == <<>>

\* pyaurum.align4(buffer): the zero bytes that bring len(buffer) to a
\* multiple of 4.
align4(buffer) == Zeros((4 - (Len(buffer) % 4)) % 4)

\* An alignment that adds nothing.
align32_nothing(buffer) == <<>>

\* pyaurum.align32(buffer).
align32(buffer) == Zeros((32 - (Len(buffer) % 32)) % 32)

\* pyaurum.get_s8.
get_s8(buffer, offset) ==
    IF At(buffer, offset) >= 128 THEN At(buffer, offset) - 256 ELSE At(buffer, offset)

\* pyaurum.get_s16.
get_s16(buffer, offset) ==
    IF get_u16(buffer, offset) >= 32768 THEN get_u16(buffer, offset) - 65536
    ELSE get_u16(buffer, offset)

\* pyaurum.get_s32, for the sizes of this model, which stay below 2^31;
\* a first byte of 128 or more reads as a negative number.
get_s32(buffer, offset) ==
    IF At(buffer, offset) >= 128 THEN -1
    ELSE (At(buffer, offset) * 256 + At(buffer, offset + 1)) * 65536
         + get_u16(buffer, offset + 2)

\* The result of a pack call: the bytes, or ok = FALSE when struct.pack (or
\* the bytearray concatenation) raises.
Packed(bytes) == [ok |-> TRUE, bytes |-> bytes]

PackError == [ok |-> FALSE, bytes |-> <<>>]

\* pyaurum.pack_u8.
pack_u8(val) == IF val \in 0 .. 255 THEN Packed(<<val>>) ELSE PackError

\* pyaurum.pack_s8.
pack_s8(val) ==
    IF val \in -128 .. 127 THEN Packed(<<val % 256>>) ELSE PackError

\* pyaurum.pack_u16.
pack_u16(val) ==
    IF val \in 0 .. 65535 THEN Packed(<<val \div 256, val % 256>>) ELSE PackError

\* pyaurum.pack_s16.
pack_s16(val) ==
    IF val \in -32768 .. 32767
    THEN Packed(<<(val % 65536) \div 256, val % 256>>)
    ELSE PackError

\* pyaurum.pack_s32, for values below 2^31.
pack_s32(val) ==
    IF val >= 0
    THEN Packed(<<val \div (65536 * 256), (val \div 65536) % 256,
                  (val \div 256) % 256, val % 256>>)
    ELSE PackError

\* pyaurum.pack_u32 of a pair.
pack_u32(val) ==
    IF val.hi \in 0 .. 65535
    THEN Packed(<<val.hi \div 256, val.hi % 256, val.lo \div 256, val.lo % 256>>)
    ELSE PackError

\* pyaurum.pack_bool: the truth value of val as one byte.
pack_bool(val) == Packed(<<IF val # 0 THEN 1 ELSE 0>>)

\* pyaurum.get_bool.
get_bool(buffer, offset) == IF At(buffer, offset) # 0 THEN 1 ELSE 0

\* pyaurum.get_f32: struct reads the 4 bytes as a C float and widens it to
\* the double a Python float is.  The value is kept as the 4 bytes that
\* pack_f32 gives back for it: every float but a signalling NaN (exponent
\* all ones, mantissa not zero, quiet bit clear) widens and narrows to
\* itself, and for a signalling NaN the conversion sets the quiet bit.
get_f32(buffer, offset) ==
    LET b == Slice(buffer, offset, offset + 4)
        signalling == /\ b[1] % 128 = 127 /\ b[2] >= 128
                      /\ (b[2] \div 64) % 2 = 0
                      /\ (b[2] % 64 # 0 \/ b[3] # 0 \/ b[4] # 0)
    IN IF signalling THEN <<b[1], b[2] + 64, b[3], b[4]>> ELSE b

(***************************************************************************)
(* Typed chunks.  A field is described by its name, its class (kind) and   *)
(* its size; a flag word carries its descriptors, and a                    *)
(* FlagConditionalChunk the position (in the owner's auto_chunks) of the   *)
(* flag word that governs it and the bit it tests.  The value of a field:  *)
(*   U8, S8, U16, Bool    an integer (a Bool holds 0 or 1)                  *)
(*   F32                  the 4 bytes pack_f32 gives for the float          *)
(*   Bytes4               the bytes object (of any length), or NotBytes     *)
(*   Flag8/16/32          a pair                                            *)
(*   Cond                 the value of the inner F32Chunk                   *)
(***************************************************************************)
Field(name, kind, size) ==
    [name |-> name, kind |-> kind, size |-> size, flags |-> <<>>, flag |-> 0,
     flag_num |-> 0, default |-> <<0, 0, 0, 0>>]

\* U8Chunk, S8Chunk, U16Chunk, BoolChunk, F32Chunk, U32ChunkBytes, Offset.
U8(name) == Field(name, "U8", 1)
S8(name) == Field(name, "S8", 1)
U16(name) == Field(name, "U16", 2)
BoolField(name) == Field(name, "Bool", 1)
F32(name) == Field(name, "F32", 4)
Bytes4(name) == Field(name, "Bytes4", 4)
Offset(size) == Field("Offset", "Offset", size)

\* Flag8Chunk, Flag16Chunk, Flag32Chunk with their assigned flags.
Flag8(name, flags) == [Field(name, "Flag8", 1) EXCEPT !.flags = flags]
Flag16(name, flags) == [Field(name, "Flag16", 2) EXCEPT !.flags = flags]
Flag32(name, flags) == [Field(name, "Flag32", 4) EXCEPT !.flags = flags]

\* FlagConditionalChunk(F32Chunk(name, default), flag, flag_num).
CondF32(name, default, flag, flag_num) ==
    [Field(name, "Cond", 4) EXCEPT !.flag = flag, !.flag_num = flag_num,
                                   !.default = default]

\* The float 1.0, big-endian.
FloatOne == <<63, 128, 0, 0>>

\* U32ChunkBytes(name) is constructed with default_val = 0, a Python int
\* and not a bytes object.
NotBytes == <<-1>>

IsFlagKind(kind) == kind \in {"Flag8", "Flag16", "Flag32"}

\* The value each constructor stores.
DefaultVal(f) ==
    CASE f.kind \in {"U8", "S8", "U16", "Bool", "Offset"} -> 0
      [] f.kind = "F32" -> Zeros(4)
      [] f.kind = "Cond" -> f.default
      [] f.kind = "Bytes4" -> NotBytes
      [] IsFlagKind(f.kind) -> BigOf(0)

DefaultVals(F) == [i \in 1 .. Len(F) |-> DefaultVal(F[i])]

\* is_condition_met reading the flag word as the constructor left it
\* instead of as it is now.
is_condition_met_at_construction(F, vals, f) ==
    BigAnd(BigShr(DefaultVal(F[f.flag]), f.flag_num), BigOf(1)).lo # 0

\* FlagConditionalChunk.is_condition_met: (self.flag.val >> self.flag_num) & 0x1.
is_condition_met(F, vals, f) ==
    BigAnd(BigShr(vals[f.flag], f.flag_num), BigOf(1)).lo # 0

\* A size that does not ask whether the condition is met.
get_size_nominal(F, vals, i) == F[i].size

\* get_size: ConditionalChunk.get_size for a conditional chunk.
get_size(F, vals, i) ==
    IF F[i].kind = "Cond"
    THEN (IF is_condition_met(F, vals, F[i]) THEN F[i].size ELSE 0)
    ELSE F[i].size

\* unpack of one typed chunk: [ok, val]; ok = FALSE when the read raises.
\* U32ChunkBytes.unpack slices and never raises; Offset.unpack does nothing.
Field_unpack(F, vals, i, buffer, offset) ==
    LET f == F[i]
    IN CASE f.kind \in {"U8", "Flag8"} ->
              IF CanRead(buffer, offset, 1)
              THEN [ok |-> TRUE,
                    val |-> IF f.kind = "U8" THEN get_u8(buffer, offset)
                            ELSE BigOf(get_u8(buffer, offset))]
              ELSE [ok |-> FALSE, val |-> vals[i]]
         [] f.kind = "S8" ->
              IF CanRead(buffer, offset, 1)
              THEN [ok |-> TRUE, val |-> get_s8(buffer, offset)]
              ELSE [ok |-> FALSE, val |-> vals[i]]
         [] f.kind = "Bool" ->
              IF CanRead(buffer, offset, 1)
              THEN [ok |-> TRUE, val |-> get_bool(buffer, offset)]
              ELSE [ok |-> FALSE, val |-> vals[i]]
         [] f.kind \in {"U16", "Flag16"} ->
              IF CanRead(buffer, offset, 2)
              THEN [ok |-> TRUE,
                    val |-> IF f.kind = "U16" THEN get_u16(buffer, offset)
                            ELSE BigOf(get_u16(buffer, offset))]
              ELSE [ok |-> FALSE, val |-> vals[i]]
         [] f.kind = "Flag32" ->
              IF CanRead(buffer, offset, 4)
              THEN [ok |-> TRUE, val |-> get_u32(buffer, offset)]
              ELSE [ok |-> FALSE, val |-> vals[i]]
         [] f.kind = "F32" ->
              IF CanRead(buffer, offset, 4)
              THEN [ok |-> TRUE, val |-> get_f32(buffer, offset)]
              ELSE [ok |-> FALSE, val |-> vals[i]]
         [] f.kind = "Bytes4" ->
              [ok |-> TRUE, val |-> Slice(buffer, offset, offset + 4)]
         [] f.kind = "Offset" -> [ok |-> TRUE, val |-> vals[i]]
         [] f.kind = "Cond" ->
              IF ~is_condition_met(F, vals, f) THEN [ok |-> TRUE, val |-> vals[i]]
              ELSE IF CanRead(buffer, offset, 4)
              THEN [ok |-> TRUE, val |-> get_f32(buffer, offset)]
              ELSE [ok |-> FALSE, val |-> vals[i]]

\* One turn of the loop of JPAChunk.unpack: var.unpack(buffer, offset);
\* offset += var.get_size().  st is [ok, vals, offset]; once a read has
\* raised nothing more is decoded.
JPAChunk_unpack_step(F, st, i, buffer) ==
    IF ~st.ok THEN st
    ELSE With(Field_unpack(F, st.vals, i, buffer, st.offset),
              LAMBDA r :
                  IF ~r.ok THEN [st EXCEPT !.ok = FALSE]
                  ELSE With([st.vals EXCEPT ![i] = r.val],
                            LAMBDA next :
                                [ok |-> TRUE, vals |-> next,
                                 offset |-> st.offset + get_size(F, next, i)]))

\* The turns lo .. hi of that loop, in order: the first half, then the
\* second half from the state the first leaves (the halving only keeps the
\* evaluation shallow).
RECURSIVE JPAChunk_unpack_range(_, _, _, _, _)
JPAChunk_unpack_range(F, st, lo, hi, buffer) ==
    IF ~st.ok \/ lo > hi THEN st
    ELSE IF lo = hi THEN JPAChunk_unpack_step(F, st, lo, buffer)
    ELSE With(JPAChunk_unpack_range(F, st, lo, (lo + hi) \div 2, buffer),
              LAMBDA half :
                  JPAChunk_unpack_range(F, half, (lo + hi) \div 2 + 1, hi, buffer))

\* JPAChunk.unpack: every auto chunk in order, each at the offset the sizes
\* of those before it give.  [ok, vals]; on a failure vals holds what was
\* decoded before it.
JPAChunk_unpack(F, vals, buffer, offset) ==
    With([ok |-> TRUE, vals |-> vals, offset |-> offset],
         LAMBDA first :
             With(JPAChunk_unpack_range(F, first, 1, Len(F), buffer),
                  LAMBDA last : [ok |-> last.ok, vals |-> last.vals]))

\* pack of one typed chunk.  ConditionalChunk.pack returns None when the
\* condition is not met, and JPAChunk.pack then skips it: no bytes.
Field_pack(F, vals, i) ==
    LET f == F[i]
        v == vals[i]
    IN CASE f.kind = "U8" -> pack_u8(v)
         [] f.kind = "S8" -> pack_s8(v)
         [] f.kind = "U16" -> pack_u16(v)
         [] f.kind = "Bool" -> pack_bool(v)
         [] f.kind = "F32" -> Packed(v)
         [] f.kind = "Bytes4" -> IF v = NotBytes THEN PackError ELSE Packed(v)
         [] f.kind = "Offset" -> Packed(Zeros(f.size))
         [] f.kind = "Flag8" -> IF v.hi = 0 THEN pack_u8(v.lo) ELSE PackError
         [] f.kind = "Flag16" -> IF v.hi = 0 THEN pack_u16(v.lo) ELSE PackError
         [] f.kind = "Flag32" -> pack_u32(v)
         [] f.kind = "Cond" ->
              IF is_condition_met(F, vals, f) THEN Packed(v) ELSE Packed(<<>>)

\* binary_data += var_data, when neither has raised.
PackAppend(binary_data, var_data) ==
    IF binary_data.ok /\ var_data.ok THEN Packed(binary_data.bytes \o var_data.bytes)
    ELSE PackError

\* The bytes of the auto chunks lo .. hi, in order (by halves, to keep the
\* evaluation shallow).
RECURSIVE JPAChunk_pack_range(_, _, _, _)
JPAChunk_pack_range(F, vals, lo, hi) ==
    IF lo > hi THEN Packed(<<>>)
    ELSE IF lo = hi THEN Field_pack(F, vals, lo)
    ELSE With(<<JPAChunk_pack_range(F, vals, lo, (lo + hi) \div 2),
                JPAChunk_pack_range(F, vals, (lo + hi) \div 2 + 1, hi)>>,
              LAMBDA halves : PackAppend(halves[1], halves[2]))

\* JPAChunk.pack: the concatenation of the auto chunks' bytes.
JPAChunk_pack(F, vals) == JPAChunk_pack_range(F, vals, 1, Len(F))

(***************************************************************************)
(* Standard chunks: the change diagnostic.                                 *)
(***************************************************************************)
\* The offset identify_changes (and JPAChunk.unpack) has reached when it
\* comes to auto chunk i: the sizes of the chunks before it.
RECURSIVE SizeOfRange(_, _, _, _)
SizeOfRange(F, vals, lo, hi) ==
    IF lo > hi THEN 0
    ELSE IF lo = hi THEN get_size(F, vals, lo)
    ELSE SizeOfRange(F, vals, lo, (lo + hi) \div 2)
         + SizeOfRange(F, vals, (lo + hi) \div 2 + 1, hi)

OffsetOf(F, vals, i) == SizeOfRange(F, vals, 1, i - 1)

\* FlagChunk.pack_json returns: get_val_flag raises for no assigned flag.
FlagChunk_pack_json_ok(flags, val) ==
    \A k \in 1 .. Len(flags) : get_val_flag(val, flags[k]).ok

\* JPAStandardChunk.identify_changes raises.  It does nothing when the new
\* bytes equal the stash (and are not empty).  Otherwise it walks the auto
\* chunks until one no longer fits in the old or the new bytes; for each it
\* calls pack_json on the chunk and on a copy unpacked from the old bytes,
\* and FlagChunk.pack_json looks every enum-typed flag up.
identify_changes_raises(F, vals, old, new) ==
    /\ (old # new \/ new = <<>>)
    /\ \E i \in 1 .. Len(F) :
          /\ OffsetOf(F, vals, i) + get_size(F, vals, i) <= Min(Len(old), Len(new))
          /\ IsFlagKind(F[i].kind)
          /\ \/ ~FlagChunk_pack_json_ok(F[i].flags, vals[i])
             \/ ~FlagChunk_pack_json_ok(F[i].flags,
                    Field_unpack(F, vals, i, old, OffsetOf(F, vals, i)).val)

\* The stash identify_changes leaves when it returns: binary_data when it
\* differs from the stash or is empty, the stash as it was otherwise.
identify_changes_kept(old, new) == old

identify_changes(old, new) == IF old # new \/ new = <<>> THEN new ELSE old

\* identify_changes reports a change: self.binary_data != binary_data or
\* not binary_data.
ChangeDetected(old, new) == old # new \/ new = <<>>

\* magic.encode("ascii").
Magic(magic) ==
    CASE magic = "BEM1" -> <<66, 69, 77, 49>>
      [] magic = "FLD1" -> <<70, 76, 68, 49>>
      [] magic = "KFA1" -> <<75, 70, 65, 49>>
      [] magic = "BSP1" -> <<66, 83, 80, 49>>
      [] magic = "ESP1" -> <<69, 83, 80, 49>>
      [] magic = "SSP1" -> <<83, 83, 80, 49>>
      [] magic = "ETX1" -> <<69, 84, 88, 49>>
      [] magic = "TDB1" -> <<84, 68, 66, 49>>

\* bytearray slice assignment buffer[a:e] = x.
SliceAssign(buffer, a, e, x) ==
    LET lo == Min(a, Len(buffer))
        hi == Max(lo, Min(e, Len(buffer)))
    IN Slice(buffer, 0, lo) \o x \o Slice(buffer, hi, Len(buffer))

\* FlagChunk.get_flag: the first assigned flag of that name.
get_flag(flags, name) ==
    flags[CHOOSE k \in 1 .. Len(flags) :
              /\ flags[k].name = name
              /\ \A j \in 1 .. k - 1 : flags[j].name # name]

\* FlagChunk.get_val_flag_name of a bool flag, as a truth value.
get_val_flag_name(flags, val, name) ==
    get_val_flag(val, get_flag(flags, name)).val # 0

(***************************************************************************)
(* JPAColorFrame and JPABaseShape.                                         *)
(***************************************************************************)
\* JPAColorFrame.__init__: auto_chunks = [frame, color]; the color is
\* constructed as bytes(), the empty bytes object.
JPAColorFrame_auto_chunks == <<U16("Frame"), Bytes4("Color")>>

JPAColorFrame_new == <<0, <<>>>>

\* JPABaseShape.__init__: the descriptors of self.flags.
BaseShapeFlags ==
    << Flag("ShapeType", 0, 15, "ShapeType"),
       Flag("DirectionType", 4, 7, "DirectionType"),
       Flag("RotationType", 7, 7, "RotationType"),
       Flag("PlaneType", 10, 1, "PlaneType"),
       Flag("FlagsUnk11", 11, 1, "bool"),
       Flag("IsGlobalColorAnimation", 12, 1, "bool"),
       Flag("FlagsUnk13", 13, 1, "bool"),
       Flag("IsGlobalTextureAnimation", 14, 1, "bool"),
       Flag("ColorInSelect", 15, 7, "int"),
       Flag("AlphaInSelect", 18, 1, "int"),
       Flag("IsEnableProjection", 20, 1, "bool"),
       Flag("IsDrawForwardAhead", 21, 1, "bool"),
       Flag("IsDrawPrintAhead", 22, 1, "bool"),
       Flag("FlagsUnk23", 23, 1, "bool"),
       Flag("IsEnableTexScrollAnim", 24, 1, "bool"),
       Flag("DoubleTilingS", 25, 1, "bool"),
       Flag("DoubleTilingT", 26, 1, "bool"),
       Flag("IsNoDrawParent", 27, 1, "bool"),
       Flag("IsNoDrawChild", 28, 1, "bool") >>

\* JPABaseShape.__init__: the descriptors of self.z_mode_flags.
ZModeFlags ==
    << Flag("DepthTest", 0, 1, "bool"),
       Flag("DepthCompareType", 1, 7, "CompareType"),
       Flag("DepthWrite", 4, 1, "bool"),
       Flag("ZModeFlagsUnk5", 5, 1, "int") >>

\* JPABaseShape.__init__: the descriptors of self.texture_flags.
TextureFlags ==
    << Flag("IsEnableTexAnim", 0, 1, "bool"),
       Flag("TexFlagsUnk1", 1, 1, "bool"),
       Flag("TexCalcIndexType", 2, 7, "CalcIndexType") >>

\* JPABaseShape.__init__: the descriptors of self.color_flags.
ColorFlags ==
    << Flag("ColorFlagsUnk0", 0, 1, "bool"),
       Flag("IsPrimaryColorAnimEnabled", 1, 1, "bool"),
       Flag("ColorFlagsUnk2", 2, 1, "bool"),
       Flag("IsEnvironmentColorAnimEnabled", 3, 1, "bool"),
       Flag("ColorCalcIndexType", 4, 7, "CalcIndexType") >>

\* JPABaseShape.__init__: self.auto_chunks, in order.  The ten conditional
\* floats are governed by bit 24 of self.flags, the first auto chunk.
JPABaseShape_auto_chunks ==
    << Flag32("BaseShapeFlags", BaseShapeFlags), Offset(4),
       F32("BaseSizeX"), F32("BaseSizeY"),
       Flag16("BlendModeFlags", BlendModeFlags),
       Flag8("AlphaCompareFlags", AlphaCompareFlags),
       U8("AlphaReference0"), U8("AlphaReference1"),
       Flag8("ZModeFlags", ZModeFlags), Flag8("TextureFlags", TextureFlags),
       Offset(1), U8("TextureIndex"),
       Flag8("ColorFlags", ColorFlags), Offset(2),
       U16("ColorAnimationMaxFrame"),
       Bytes4("PrimaryColor"), Bytes4("EnvironmentColor"),
       U8("AnimationRandom"), U8("ColorLoopOffsetMask"),
       U8("TextureIndexLoopOffsetMask"), Offset(3),
       CondF32("TexInitTransX", Zeros(4), 1, 24),
       CondF32("TexInitTransY", Zeros(4), 1, 24),
       CondF32("TexInitScaleX", FloatOne, 1, 24),
       CondF32("TexInitScaleY", FloatOne, 1, 24),
       CondF32("TexInitRotation", Zeros(4), 1, 24),
       CondF32("TexIncTransX", Zeros(4), 1, 24),
       CondF32("TexIncTransY", Zeros(4), 1, 24),
       CondF32("TexIncScaleX", FloatOne, 1, 24),
       CondF32("TexIncScaleY", FloatOne, 1, 24),
       CondF32("TexIncRotation", Zeros(4), 1, 24) >>

\* The position of a named auto chunk.
IndexOf(F, name) == CHOOSE i \in 1 .. Len(F) : F[i].name = name

\* JPABaseShape.__init__.
JPABaseShape_new ==
    [vals |-> DefaultVals(JPABaseShape_auto_chunks),
     binary_data |-> <<>>,
     texture_index_anim_data |-> <<>>,
     primary_color_data |-> <<>>,
     environment_color_data |-> <<>>]

\* The three enabling flags of a base shape, as the code reads them.
IsEnableTexScrollAnim(vals) ==
    get_val_flag_name(BaseShapeFlags, vals[1], "IsEnableTexScrollAnim")

IsEnableTexAnim(vals) ==
    get_val_flag_name(TextureFlags,
        vals[IndexOf(JPABaseShape_auto_chunks, "TextureFlags")], "IsEnableTexAnim")

IsPrimaryColorAnimEnabled(vals) ==
    get_val_flag_name(ColorFlags,
        vals[IndexOf(JPABaseShape_auto_chunks, "ColorFlags")],
        "IsPrimaryColorAnimEnabled")

IsEnvironmentColorAnimEnabled(vals) ==
    get_val_flag_name(ColorFlags,
        vals[IndexOf(JPABaseShape_auto_chunks, "ColorFlags")],
        "IsEnvironmentColorAnimEnabled")

\* The color frames JPABaseShape.unpack reads: count records 6 bytes apart,
\* each a new JPAColorFrame unpacked with JPAChunk.unpack.
ColorFrames_unpack(buffer, offset, count) ==
    [i \in 1 .. count |->
        JPAChunk_unpack(JPAColorFrame_auto_chunks, JPAColorFrame_new, buffer,
                        offset + (i - 1) * 6)]

\* JPABaseShape.unpack on a new JPABaseShape: [ok, shape].
JPABaseShape_unpack(buffer, offset) ==
    With(JPAChunk_unpack(JPABaseShape_auto_chunks,
                         DefaultVals(JPABaseShape_auto_chunks), buffer, offset + 8),
         LAMBDA r :
    LET F == JPABaseShape_auto_chunks
        size == get_s32(buffer, offset + 4) - 8
        primary_color_data_offset == get_u16(buffer, offset + 12)
        environment_color_data_offset == get_u16(buffer, offset + 14)
        texture_index_anim_count == get_u8(buffer, offset + 31)
        primary_count == get_u8(buffer, offset + 34)
        environment_count == get_u8(buffer, offset + 35)
        extra_data_offset ==
            offset + 52 + (IF is_condition_met(F, r.vals, F[22]) THEN 40 ELSE 0)
        texOn == IsEnableTexAnim(r.vals)
        priOn == IsPrimaryColorAnimEnabled(r.vals)
        envOn == IsEnvironmentColorAnimEnabled(r.vals)
        pri == ColorFrames_unpack(buffer, primary_color_data_offset + offset,
                                  primary_count)
        env == ColorFrames_unpack(buffer, environment_color_data_offset + offset,
                                  environment_count)
        frames(list) == [i \in 1 .. Len(list) |-> list[i].vals]
    IN IF ~r.ok THEN [ok |-> FALSE, shape |-> JPABaseShape_new]
       ELSE IF \/ texOn /\ ~CanRead(buffer, extra_data_offset, texture_index_anim_count)
               \/ priOn /\ \E i \in 1 .. Len(pri) : ~pri[i].ok
               \/ envOn /\ \E i \in 1 .. Len(env) : ~env[i].ok
       THEN [ok |-> FALSE, shape |-> JPABaseShape_new]
       ELSE [ok |-> TRUE,
             shape |->
               [vals |-> r.vals,
                binary_data |-> Slice(buffer, offset + 8, offset + 8 + size),
                texture_index_anim_data |->
                    IF texOn
                    THEN Slice(buffer, extra_data_offset,
                               extra_data_offset + texture_index_anim_count)
                    ELSE <<>>,
                primary_color_data |-> IF priOn THEN frames(pri) ELSE <<>>,
                environment_color_data |-> IF envOn THEN frames(env) ELSE <<>>]])

\* The concatenation of frame.pack() over a list of color frames.
ColorFrames_pack(list) ==
    LET data[i \in 0 .. Len(list)] ==
            IF i = 0 THEN Packed(<<>>)
            ELSE PackAppend(data[i - 1],
                            JPAChunk_pack(JPAColorFrame_auto_chunks, list[i]))
    IN data[Len(list)]

\* pyaurum.pack_u8_array.
pack_u8_array(list) ==
    IF \A i \in 1 .. Len(list) : list[i] \in 0 .. 255 THEN Packed(list) ELSE PackError

\* JPABaseShape.pack: [ok, bytes, shape], shape being the chunk after the
\* call (its stash is replaced when the diagnostic returns).
\* JPABaseShape.pack, the body before it is padded: the auto chunks with
\* the counts and offsets written over them, then the extra data.
JPABaseShape_binary_data(s) ==
    With(<<JPAChunk_pack(JPABaseShape_auto_chunks, s.vals),
           ColorFrames_pack(s.primary_color_data),
           ColorFrames_pack(s.environment_color_data)>>,
         LAMBDA packed :
    LET F == JPABaseShape_auto_chunks
        fields == packed[1]
        extra_data_offset == 52 + (IF IsEnableTexScrollAnim(s.vals) THEN 40 ELSE 0)
        texOn == IsEnableTexAnim(s.vals)
        priOn == IsPrimaryColorAnimEnabled(s.vals)
        envOn == IsEnvironmentColorAnimEnabled(s.vals)
        tex == pack_u8_array(s.texture_index_anim_data)
        texCount == pack_u8(Len(s.texture_index_anim_data))
        extra1 == IF texOn THEN tex.bytes \o align4(tex.bytes) ELSE <<>>
        binary1 == IF texOn THEN SliceAssign(fields.bytes, 23, 24, texCount.bytes)
                   ELSE fields.bytes
        pri == packed[2]
        priOffs == pack_u16(Len(extra1) + extra_data_offset)
        priCount == pack_u8(Len(s.primary_color_data))
        extra2 == IF priOn THEN extra1 \o pri.bytes \o align4(extra1 \o pri.bytes)
                  ELSE extra1
        binary2 == IF priOn
                   THEN SliceAssign(SliceAssign(binary1, 4, 6, priOffs.bytes),
                                    26, 27, priCount.bytes)
                   ELSE binary1
        env == packed[3]
        envOffs == pack_u16(Len(extra2) + extra_data_offset)
        envCount == pack_u8(Len(s.environment_color_data))
        extra3 == IF envOn THEN extra2 \o env.bytes \o align4(extra2 \o env.bytes)
                  ELSE extra2
        binary3 == IF envOn
                   THEN SliceAssign(SliceAssign(binary2, 6, 8, envOffs.bytes),
                                    27, 28, envCount.bytes)
                   ELSE binary2
        encoded == /\ fields.ok
                   /\ texOn => (tex.ok /\ texCount.ok)
                   /\ priOn => (pri.ok /\ priOffs.ok /\ priCount.ok)
                   /\ envOn => (env.ok /\ envOffs.ok /\ envCount.ok)
    IN IF encoded THEN Packed(binary3 \o extra3) ELSE PackError)

JPABaseShape_pack(s) ==
    With(JPABaseShape_binary_data(s), LAMBDA binary_data :
    LET F == JPABaseShape_auto_chunks
        out_data == binary_data.bytes \o align4(binary_data.bytes)
        size == pack_s32(8 + Len(out_data))
    IN IF ~binary_data.ok THEN [ok |-> FALSE, bytes |-> <<>>, shape |-> s]
       ELSE IF identify_changes_raises(F, s.vals, s.binary_data, binary_data.bytes)
       THEN [ok |-> FALSE, bytes |-> <<>>, shape |-> s]
       ELSE [ok |-> TRUE, bytes |-> Magic("BSP1") \o size.bytes \o out_data,
             shape |-> [s EXCEPT !.binary_data =
                           identify_changes(@, binary_data.bytes)]])

(***************************************************************************)
(* Base shapes as the editor handles them: one is decoded from a file or   *)
(* constructed for a new particle, edited through the handlers of          *)
(* pygapa.py, and packed.                                                  *)
(***************************************************************************)
\* A color keyframe record in a file: the frame number and 4 color bytes.
FrameBytes(frame) == <<0, frame, 16 * frame, 32, 48, 255>>

RECURSIVE Concat(_)
Concat(list) == IF list = <<>> THEN <<>> ELSE Head(list) \o Concat(Tail(list))

\* A sequence followed by the zero bytes that bring it to a multiple of 4.
Pad4(bytes) == bytes \o align4(bytes)

\* The bytes of a BSP1 section as found in a file: scroll says whether bit
\* 24 is set, low is the lowest byte of the flag word (shape and direction
\* type), tex, pri and env are the three arrays and the three On say
\* whether each is enabled.
BspBytes(p) ==
    LET texRegion == IF p.texOn THEN Pad4(p.tex) ELSE <<>>
        priRegion == IF p.priOn
                     THEN Pad4(Concat([i \in 1 .. Len(p.pri) |-> FrameBytes(p.pri[i])]))
                     ELSE <<>>
        envRegion == IF p.envOn
                     THEN Pad4(Concat([i \in 1 .. Len(p.env) |-> FrameBytes(p.env[i])]))
                     ELSE <<>>
        start == 52 + (IF p.scroll = 1 THEN 40 ELSE 0)
        priOffs == IF p.priOn THEN start + Len(texRegion) ELSE 0
        envOffs == IF p.envOn THEN start + Len(texRegion) + Len(priRegion) ELSE 0
        floats == IF p.scroll = 1
                  THEN <<0, 0, 0, 0>> \o <<0, 0, 0, 0>> \o FloatOne \o FloatOne
                       \o <<0, 0, 0, 0>> \o <<62, 0, 0, 0>> \o <<0, 0, 0, 0>>
                       \o FloatOne \o FloatOne \o <<0, 0, 0, 0>>
                  ELSE <<>>
        body ==
            <<p.scroll, 0, 0, p.low>>
            \o <<0, priOffs, 0, envOffs>>
            \o FloatOne \o FloatOne
            \o <<0, 5>> \o <<36>> \o <<10, 20>> \o <<3>>
            \o <<IF p.texOn THEN 1 ELSE 0>>
            \o <<IF p.texOn THEN Len(p.tex) ELSE 0>>
            \o <<1>>
            \o <<(IF p.priOn THEN 2 ELSE 0) + (IF p.envOn THEN 8 ELSE 0)>>
            \o <<IF p.priOn THEN Len(p.pri) ELSE 0, IF p.envOn THEN Len(p.env) ELSE 0>>
            \o <<0, 9>>
            \o <<255, 0, 0, 255>> \o <<0, 255, 0, 128>>
            \o <<0, 0, 0>> \o <<0, 0, 0>>
            \o floats \o texRegion \o priRegion \o envRegion
    IN Magic("BSP1") \o <<0, 0, 0, 8 + Len(body)>> \o body

ShapeParam(scroll, low, texOn, tex, priOn, pri, envOn, env) ==
    [scroll |-> scroll, low |-> low, texOn |-> texOn, tex |-> tex,
     priOn |-> priOn, pri |-> pri, envOn |-> envOn, env |-> env]

\* The base shapes decoded: plain ones, ones with every array enabled, with
\* and without the scroll floats, and one whose direction type (bits 4..6
\* = 7) is no member of DirectionType.
ShapeInputs ==
    { ShapeParam(0, 2, FALSE, <<>>, FALSE, <<>>, FALSE, <<>>),
      ShapeParam(1, 2, FALSE, <<>>, FALSE, <<>>, FALSE, <<>>),
      ShapeParam(0, 2, TRUE, <<4, 5>>, TRUE, <<1>>, TRUE, <<2, 3>>),
      ShapeParam(1, 1, TRUE, <<7>>, TRUE, <<1, 2>>, TRUE, <<3>>),
      ShapeParam(0, 114, FALSE, <<>>, TRUE, <<1>>, FALSE, <<>>) }

\* The bytes a color line edit hands over (bytes.fromhex of its text).
ColorValues == {<<>>, <<9, 8, 7, 6>>}

ShapeObs(op, ok, out, prev, pending, edits) ==
    [op |-> op, ok |-> ok, out |-> out, prev |-> prev, pending |-> pending,
     edits |-> edits]

\* JPAResource.__init__: self.base_shape = JPABaseShape().
ShapeInit ==
    /\ shape = JPABaseShape_new
    /\ shapeObs = ShapeObs("new", TRUE, <<>>, PackError, "none", 0)
    /\ NoFlagWord /\ NoResource /\ NoContainer

\* JPAResource.unpack, the BSP1 branch: a new JPABaseShape is unpacked
\* from the section.
ShapeUnpack ==
    \E p \in ShapeInputs :
      \E r \in {JPABaseShape_unpack(BspBytes(p), 0)} :
        /\ shapeObs.op = "new"
        /\ shape' = r.shape
        /\ shapeObs' = ShapeObs("unpack", r.ok, <<>>, PackError, "none", 0)
        /\ UNCHANGED notShapeVars

\* What an edit leaves in the observation: the first edit after a pack
\* remembers that pack's result and its own label, later ones are "other".
Edited(label) ==
    IF shapeObs.op = "pack"
    THEN ShapeObs("edit", TRUE, <<>>, [ok |-> shapeObs.ok, bytes |-> shapeObs.out],
                  label, shapeObs.edits + 1)
    ELSE ShapeObs("edit", TRUE, <<>>, shapeObs.prev, "other", shapeObs.edits + 1)

\* flag_chunk.set_val_flag_name(name, val) on auto chunk i of a base shape.
Shape_set_val_flag_name(s, i, name, val) ==
    LET F == JPABaseShape_auto_chunks IN
    [s EXCEPT !.vals[i] =
        set_val_flag(F[i].kind, s.vals[i], get_flag(F[i].flags, name), val)]

\* PgpEditor.enable_texture_scroll_anim(val).
enable_texture_scroll_anim ==
    \E val \in {0, 1} :
        LET was == IsEnableTexScrollAnim(shape.vals) IN
        /\ shapeObs.edits < MaxEdits
        /\ shape' = Shape_set_val_flag_name(shape, 1, "IsEnableTexScrollAnim", val)
        /\ shapeObs' = Edited(IF ~was /\ val = 1 THEN "scroll01"
                              ELSE IF was /\ val = 0 THEN "scroll10" ELSE "other")
        /\ UNCHANGED notShapeVars

\* PgpEditor.enable_texture_animation(val).
enable_texture_animation ==
    \E val \in {0, 1} :
        /\ shapeObs.edits < MaxEdits
        /\ shape' = Shape_set_val_flag_name(shape,
                        IndexOf(JPABaseShape_auto_chunks, "TextureFlags"),
                        "IsEnableTexAnim", val)
        /\ shapeObs' = Edited("other")
        /\ UNCHANGED notShapeVars

\* PgpEditor.set_primary_color_enabled(val).
set_primary_color_enabled ==
    \E val \in {0, 1} :
        /\ shapeObs.edits < MaxEdits
        /\ shape' = Shape_set_val_flag_name(shape,
                        IndexOf(JPABaseShape_auto_chunks, "ColorFlags"),
                        "IsPrimaryColorAnimEnabled", val)
        /\ shapeObs' = Edited("other")
        /\ UNCHANGED notShapeVars

\* PgpEditor.set_environment_color_enabled(val).
set_environment_color_enabled ==
    \E val \in {0, 1} :
        /\ shapeObs.edits < MaxEdits
        /\ shape' = Shape_set_val_flag_name(shape,
                        IndexOf(JPABaseShape_auto_chunks, "ColorFlags"),
                        "IsEnvironmentColorAnimEnabled", val)
        /\ shapeObs' = Edited("other")
        /\ UNCHANGED notShapeVars

\* PgpEditor.add_texture_index: texture_index_anim_data.append(0).
add_texture_index ==
    /\ shapeObs.edits < MaxEdits
    /\ Len(shape.texture_index_anim_data) < MaxFrames
    /\ shape' = [shape EXCEPT !.texture_index_anim_data = Append(@, 0)]
    /\ shapeObs' = Edited("other")
    /\ UNCHANGED notShapeVars

\* A list without its element i.
Remove(list, i) == SubSeq(list, 1, i - 1) \o SubSeq(list, i + 1, Len(list))

\* PgpEditor.remove_selected_texture_index.
remove_selected_texture_index ==
    \E i \in 1 .. Len(shape.texture_index_anim_data) :
        /\ shapeObs.edits < MaxEdits
        /\ shape' = [shape EXCEPT !.texture_index_anim_data = Remove(@, i)]
        /\ shapeObs' = Edited("other")
        /\ UNCHANGED notShapeVars

\* PgpEditor.get_color_tree_data: the list a color tree shows.
get_color_tree_data(s, tree) ==
    IF tree = "basePrimaryColorTree" THEN s.primary_color_data
    ELSE s.environment_color_data

\* The base shape with the list of a color tree replaced.
WithColorTreeData(s, tree, list) ==
    IF tree = "basePrimaryColorTree" THEN [s EXCEPT !.primary_color_data = list]
    ELSE [s EXCEPT !.environment_color_data = list]

ColorTrees == {"basePrimaryColorTree", "baseEnvironmentColorTree"}

\* PgpEditor.add_color_frame(tree): a new JPAColorFrame is appended.
add_color_frame ==
    \E tree \in ColorTrees :
        /\ shapeObs.edits < MaxEdits
        /\ Len(get_color_tree_data(shape, tree)) < MaxFrames
        /\ shape' = WithColorTreeData(shape, tree,
                        Append(get_color_tree_data(shape, tree), JPAColorFrame_new))
        /\ shapeObs' = Edited("other")
        /\ UNCHANGED notShapeVars

\* PgpEditor.remove_selected_color_frame(tree).
remove_selected_color_frame ==
    \E tree \in ColorTrees :
        \E i \in 1 .. Len(get_color_tree_data(shape, tree)) :
            /\ shapeObs.edits < MaxEdits
            /\ shape' = WithColorTreeData(shape, tree,
                            Remove(get_color_tree_data(shape, tree), i))
            /\ shapeObs' = Edited("other")
            /\ UNCHANGED notShapeVars

\* PgpEditor.set_color_frame_data("Color", val, tree) on the selected
\* frame: color.set_val(val).
set_color_frame_data ==
    \E tree \in ColorTrees, val \in ColorValues :
        \E i \in 1 .. Len(get_color_tree_data(shape, tree)) :
            /\ shapeObs.edits < MaxEdits
            /\ shape' = WithColorTreeData(shape, tree,
                            [get_color_tree_data(shape, tree) EXCEPT ![i][2] = val])
            /\ shapeObs' = Edited("other")
            /\ UNCHANGED notShapeVars

\* The textChanged handlers of basePrimaryColor and baseEnvironmentColor:
\* primary_color.set_val(bytes.fromhex(text)), environment_color.set_val(...).
set_base_color ==
    \E name \in {"PrimaryColor", "EnvironmentColor"}, val \in ColorValues :
        /\ shapeObs.edits < MaxEdits
        /\ shape' = [shape EXCEPT
                        !.vals[IndexOf(JPABaseShape_auto_chunks, name)] = val]
        /\ shapeObs' = Edited("other")
        /\ UNCHANGED notShapeVars

\* base_shape.pack(), as JPAResource.pack calls it.
ShapePack ==
    \E r \in {JPABaseShape_pack(shape)} :
    /\ shape' = r.shape
    /\ shapeObs' = [shapeObs EXCEPT !.op = "pack", !.ok = r.ok, !.out = r.bytes]
    /\ UNCHANGED notShapeVars

ShapeNext ==
    \/ ShapeUnpack
    \/ enable_texture_scroll_anim
    \/ enable_texture_animation
    \/ set_primary_color_enabled
    \/ set_environment_color_enabled
    \/ add_texture_index
    \/ remove_selected_texture_index
    \/ add_color_frame
    \/ remove_selected_color_frame
    \/ set_color_frame_data
    \/ set_base_color
    \/ ShapePack

SpecShape == ShapeInit /\ [][ShapeNext]_vars

(***************************************************************************)
(* The other chunks of a resource.  A standard chunk is kept as            *)
(* [vals, binary_data]: the values of its auto chunks and the stash of its *)
(* last encoding; a key block also has its keyframes.                      *)
(***************************************************************************)
\* JPADynamicsBlock.__init__: auto_chunks.
JPADynamicsBlock_auto_chunks ==
    << Flag32("Flags", DynamicsFlags), Bytes4("Unknown"),
       F32("EmitterScaleX"), F32("EmitterScaleY"), F32("EmitterScaleZ"),
       F32("EmitterTranslationX"), F32("EmitterTranslationY"), F32("EmitterTranslationZ"),
       F32("EmitterDirectionX"), F32("EmitterDirectionY"), F32("EmitterDirectionZ"),
       F32("InitialVelocityOmni"), F32("InitialVelocityAxis"), F32("InitialVelocityRandom"),
       F32("InitialVelocityDirection"), F32("Spread"), F32("InitialVelocityRatio"),
       F32("Rate"), F32("RateRandom"), F32("LifetimeRandom"), F32("VolumeSweep"),
       F32("VolumeMinimumRadius"), F32("AirResistance"), F32("MomentRandom"),
       U16("EmitterRotationXDeg"), U16("EmitterRotationYDeg"), U16("EmitterRotationZDeg"),
       U16("MaxFrame"), U16("StartFrame"), U16("Lifetime"), U16("VolumeSize"),
       U16("DivisionNumber"), U8("RateStep"), Offset(3) >>

\* JPAFieldBlock.__init__: auto_chunks.
JPAFieldBlock_auto_chunks ==
    << Flag32("FieldFlags",
              << Flag("FieldType", 0, 15, "FieldType"),
                 Flag("VelocityType", 8, 3, "FieldAddType"),
                 Flag("NoInheritRotate", 17, 1, "bool"),
                 Flag("AirDrag", 18, 1, "bool"),
                 Flag("FadeUseEnterTime", 19, 1, "bool"),
                 Flag("FadeUseDistanceTime", 20, 1, "bool"),
                 Flag("FadeUseFadeIn", 21, 1, "bool"),
                 Flag("FadeUseFadeOut", 22, 1, "bool") >>),
       F32("PositionX"), F32("PositionY"), F32("PositionZ"),
       F32("DirectionX"), F32("DirectionY"), F32("DirectionZ"),
       F32("Param1"), F32("Param2"), F32("Param3"),
       F32("FadeIn"), F32("FadeOut"), F32("EnterTime"), F32("DistanceTime"),
       U8("Cycle"), Offset(3) >>

\* JPAKeyBlock.__init__: auto_chunks.
JPAKeyBlock_auto_chunks ==
    << U8("KeyType"), U8("KeyCount"), U8("Unused"), BoolField("Loop") >>

\* JPAKeyframe.__init__: auto_chunks.
JPAKeyframe_auto_chunks ==
    << F32("Time"), F32("Value"), F32("TangentIn"), F32("TangentOut") >>

\* JPAExtraShape.__init__: auto_chunks.
JPAExtraShape_auto_chunks ==
    << Flag32("ExtraShapeFlags",
              << Flag("IsEnableScale", 0, 1, "bool"),
                 Flag("IsDiffXY", 1, 1, "bool"),
                 Flag("FlagsUnk2", 2, 1, "bool"),
                 Flag("FlagsUnk3", 3, 1, "bool"),
                 Flag("ScaleAnimTypeX", 8, 3, "CalcScaleAnimType"),
                 Flag("ScaleAnimTypeY", 10, 3, "CalcScaleAnimType"),
                 Flag("PivotX", 12, 3, "int"),
                 Flag("PivotY", 14, 3, "int"),
                 Flag("IsEnableAlpha", 16, 1, "bool"),
                 Flag("IsEnableSinWave", 17, 1, "bool"),
                 Flag("IsEnableRotate", 24, 1, "bool") >>),
       F32("ScaleInTiming"), F32("ScaleOutTiming"), F32("ScaleInValueX"),
       F32("ScaleOutValueX"), F32("ScaleInValueY"), F32("ScaleOutValueY"),
       F32("ScaleOutRandom"),
       U16("ScaleAnimationXMaxFrame"), U16("ScaleAnimationYMaxFrame"),
       F32("AlphaInTiming"), F32("AlphaOutTiming"), F32("AlphaInValue"),
       F32("AlphaBaseValue"), F32("AlphaOutValue"), F32("AlphaWaveFrequency"),
       F32("AlphaWaveRandom"), F32("AlphaWaveAmplitude"),
       F32("RotateAngle"), F32("RotateAngleRandom"), F32("RotateSpeed"),
       F32("RotateSpeedRandom"), F32("RotateDirection") >>

\* JPAChildShape.__init__: auto_chunks.
JPAChildShape_auto_chunks ==
    << Flag32("Flags",
              << Flag("ShapeType", 0, 15, "ShapeType"),
                 Flag("DirectionType", 4, 7, "DirectionType"),
                 Flag("RotationType", 7, 7, "RotationType"),
                 Flag("PlaneType", 10, 1, "PlaneType"),
                 Flag("IsInheritedScale", 16, 1, "bool"),
                 Flag("IsInheritedAlpha", 17, 1, "bool"),
                 Flag("IsInheritedRGB", 18, 1, "bool"),
                 Flag("FlagsUnk19", 19, 1, "bool"),
                 Flag("FlagsUnk20", 20, 1, "bool"),
                 Flag("IsEnableField", 21, 1, "bool"),
                 Flag("IsEnableScaleOut", 22, 1, "bool"),
                 Flag("IsEnableAlphaOut", 23, 1, "bool"),
                 Flag("IsEnableRotate", 24, 1, "bool") >>),
       F32("PositionRandom"), F32("BaseVelocity"), F32("BaseVelocityRandom"),
       F32("VelocityInfluenceRate"), F32("Gravity"), F32("GlobalScale2DX"),
       F32("GlobalScale2DY"), F32("InheritScale"), F32("InheritAlpha"),
       F32("InheritRGB"), Bytes4("PrimaryColor"), Bytes4("EnvironmentColor"),
       F32("Timing"), U16("Life"), U16("Rate"), U8("Step"), U8("TextureIndex"),
       U16("RotateSpeed") >>

\* JPAExTexShape.__init__: auto_chunks.
JPAExTexShape_auto_chunks ==
    << Flag32("ExTexFlags",
              << Flag("IndirectTextureMode", 0, 1, "IndirectTextureMode"),
                 Flag("UseSecondTextureIndex", 8, 1, "bool") >>),
       F32("IndirectTextureMatrix[0][0]"), F32("IndirectTextureMatrix[0][1]"),
       F32("IndirectTextureMatrix[0][2]"), F32("IndirectTextureMatrix[1][0]"),
       F32("IndirectTextureMatrix[1][1]"), F32("IndirectTextureMatrix[1][2]"),
       S8("MatrixScale"), U8("IndirectTextureIndex"), U8("SecondTextureIndex"),
       Offset(1) >>

\* The auto chunks of the chunk class a magic stands for.
auto_chunks(magic) ==
    CASE magic = "BEM1" -> JPADynamicsBlock_auto_chunks
      [] magic = "FLD1" -> JPAFieldBlock_auto_chunks
      [] magic = "KFA1" -> JPAKeyBlock_auto_chunks
      [] magic = "BSP1" -> JPABaseShape_auto_chunks
      [] magic = "ESP1" -> JPAExtraShape_auto_chunks
      [] magic = "SSP1" -> JPAChildShape_auto_chunks
      [] magic = "ETX1" -> JPAExTexShape_auto_chunks

\* JPAStandardChunk.__init__ (after the subclass has set auto_chunks).
JPAStandardChunk_new(magic) ==
    [vals |-> DefaultVals(auto_chunks(magic)), binary_data |-> <<>>]

\* JPAStandardChunk.unpack on a new chunk: [ok, chunk].  get_s32 raises
\* when the size field is not in the buffer.
JPAStandardChunk_unpack(magic, buffer, offset) ==
    With(JPAChunk_unpack(auto_chunks(magic), DefaultVals(auto_chunks(magic)),
                         buffer, offset + 8),
         LAMBDA r :
    LET size == get_s32(buffer, offset + 4) - 8
    IN IF ~CanRead(buffer, offset + 4, 4) \/ ~r.ok
       THEN [ok |-> FALSE, chunk |-> JPAStandardChunk_new(magic)]
       ELSE [ok |-> TRUE,
             chunk |-> [vals |-> r.vals,
                        binary_data |-> Slice(buffer, offset + 8, offset + 8 + size)]])

\* JPAStandardChunk.pack: [ok, bytes, chunk].  The stash is replaced when
\* the diagnostic returns.
JPAStandardChunk_binary_data(magic, c) == JPAChunk_pack(auto_chunks(magic), c.vals)

JPAStandardChunk_pack(magic, c) ==
    With(JPAStandardChunk_binary_data(magic, c),
         LAMBDA binary_data :
    LET F == auto_chunks(magic)
        out_data == binary_data.bytes \o align4(binary_data.bytes)
        size == pack_s32(8 + Len(out_data))
    IN IF ~binary_data.ok THEN [ok |-> FALSE, bytes |-> <<>>, chunk |-> c]
       ELSE IF identify_changes_raises(F, c.vals, c.binary_data, binary_data.bytes)
       THEN [ok |-> FALSE, bytes |-> <<>>, chunk |-> c]
       ELSE [ok |-> TRUE, bytes |-> Magic(magic) \o size.bytes \o out_data,
             chunk |-> [c EXCEPT !.binary_data = binary_data.bytes]])

\* JPAKeyBlock.__init__.
JPAKeyBlock_new ==
    [vals |-> DefaultVals(JPAKeyBlock_auto_chunks), binary_data |-> <<>>,
     keyframes |-> <<>>]

\* JPAKeyBlock.unpack on the key block c: the stash and the four auto
\* chunks are read, then key_count keyframes 0x10 bytes apart are appended
\* to self.keyframes, which the method does not empty first.  [ok, chunk];
\* when a read raises, chunk is the key block as the call left it.
JPAKeyBlock_unpack_into(c, buffer, offset) ==
    With(JPAChunk_unpack(JPAKeyBlock_auto_chunks, c.vals, buffer, offset + 8),
         LAMBDA r :
    With([i \in 1 .. (IF r.ok THEN r.vals[2] ELSE 0) |->
             JPAChunk_unpack(JPAKeyframe_auto_chunks,
                             DefaultVals(JPAKeyframe_auto_chunks), buffer,
                             offset + 12 + 16 * (i - 1))],
         LAMBDA keys :
    LET size == get_s32(buffer, offset + 4) - 8
        key_count == Len(keys)
        bad == {i \in 1 .. key_count : ~keys[i].ok}
        good == IF bad = {} THEN key_count
                ELSE (CHOOSE i \in bad : \A k \in bad : i <= k) - 1
        read == [vals |-> r.vals,
                 binary_data |-> Slice(buffer, offset + 8, offset + 8 + size),
                 keyframes |-> c.keyframes \o [i \in 1 .. good |-> keys[i].vals]]
    IN IF ~CanRead(buffer, offset + 4, 4) THEN [ok |-> FALSE, chunk |-> c]
       ELSE [ok |-> r.ok /\ bad = {}, chunk |-> read]))

\* JPAResource.unpack, the KFA1 branch: key_block = JPAKeyBlock() and
\* key_block.unpack(buffer, offset); a key block whose unpack raises is
\* dropped with the resource.
JPAKeyBlock_unpack(buffer, offset) ==
    With(JPAKeyBlock_unpack_into(JPAKeyBlock_new, buffer, offset),
         LAMBDA r : IF r.ok THEN r ELSE [ok |-> FALSE, chunk |-> JPAKeyBlock_new])

\* JPAKeyBlock.pack: binary_data += keyframe.pack() for the keyframes
\* lo .. hi, in order (by halves, to keep the evaluation shallow).
RECURSIVE Keyframes_pack(_, _, _)
Keyframes_pack(keyframes, lo, hi) ==
    IF lo > hi THEN Packed(<<>>)
    ELSE IF lo = hi THEN JPAChunk_pack(JPAKeyframe_auto_chunks, keyframes[lo])
    ELSE PackAppend(Keyframes_pack(keyframes, lo, (lo + hi) \div 2),
                    Keyframes_pack(keyframes, (lo + hi) \div 2 + 1, hi))

\* A pack that leaves key_count as unpack or the last pack left it.
JPAKeyBlock_pack_stale(c) ==
    With(PackAppend(JPAChunk_pack(JPAKeyBlock_auto_chunks, c.vals),
                    Keyframes_pack(c.keyframes, 1, Len(c.keyframes))),
            LAMBDA binary_data :
       LET out_data == binary_data.bytes \o align4(binary_data.bytes)
           size == pack_s32(8 + Len(out_data))
       IN IF ~binary_data.ok THEN [ok |-> FALSE, bytes |-> <<>>, chunk |-> c]
          ELSE [ok |-> TRUE, bytes |-> Magic("KFA1") \o size.bytes \o out_data,
                chunk |-> [c EXCEPT !.binary_data = binary_data.bytes]])

\* JPAKeyBlock.pack: key_count is set to len(self.keyframes) first; the
\* keyframes follow the auto chunks.  The auto chunks have no flag word, so
\* the diagnostic cannot raise; it leaves the new bytes as the stash, and
\* the padding is computed from the stash.
JPAKeyBlock_binary_data(c) ==
    PackAppend(JPAChunk_pack(JPAKeyBlock_auto_chunks,
                             [c.vals EXCEPT ![2] = Len(c.keyframes)]),
               Keyframes_pack(c.keyframes, 1, Len(c.keyframes)))

JPAKeyBlock_pack(c) ==
    LET vals == [c.vals EXCEPT ![2] = Len(c.keyframes)]
    IN With(JPAKeyBlock_binary_data(c), LAMBDA binary_data :
       With(identify_changes(c.binary_data, binary_data.bytes), LAMBDA stash :
       LET out_data == binary_data.bytes \o align4(stash)
           size == pack_s32(8 + Len(out_data))
       IN IF ~binary_data.ok
          THEN [ok |-> FALSE, bytes |-> <<>>, chunk |-> [c EXCEPT !.vals = vals]]
          ELSE [ok |-> TRUE, bytes |-> Magic("KFA1") \o size.bytes \o out_data,
                chunk |-> [c EXCEPT !.vals = vals, !.binary_data = stash]]))

(***************************************************************************)
(* Resources.  An attribute that holds None or one chunk is a sequence of  *)
(* length 0 or 1.                                                          *)
(***************************************************************************)
\* self.name = None: a name is a pair of a text and a number, None is the
\* empty sequence.
NoName == <<>>

\* JPAResource.__init__.
JPAResource_new ==
    [name |-> NoName,
     dynamics_block |-> <<JPAStandardChunk_new("BEM1")>>,
     field_blocks |-> <<>>,
     key_blocks |-> <<>>,
     base_shape |-> <<JPABaseShape_new>>,
     extra_shape |-> <<>>,
     child_shape |-> <<>>,
     ex_tex_shape |-> <<>>,
     texture_ids |-> <<>>,
     texture_names |-> <<>>,
     index |-> 0,
     total_size |-> 0]

\* The ids the TDB1 branch of JPAResource.unpack appends: get_s16(block,
\* 0x8 + j * 0x2) for j < num_textures, until a read leaves the block.
TDB1_unpack(block, num_textures) ==
    LET fits(j) == CanRead(block, 8 + 2 * j, 2)
        ok == \A j \in 0 .. num_textures - 1 : fits(j)
        n == IF ok THEN num_textures
             ELSE CHOOSE j \in 0 .. num_textures - 1 :
                      ~fits(j) /\ \A k \in 0 .. j - 1 : fits(k)
    IN [ok |-> ok, ids |-> [j \in 1 .. n |-> get_s16(block, 8 + 2 * (j - 1))]]

\* The tag with every unknown tag taken for the texture ids.
MagicAt_lenient(buffer, offset) ==
    LET tag == Slice(buffer, offset, offset + 4)
        known == {"BEM1", "FLD1", "KFA1", "BSP1", "ESP1", "SSP1", "ETX1", "TDB1"}
    IN IF \E m \in known : Magic(m) = tag
       THEN CHOOSE m \in known : Magic(m) = tag
       ELSE "TDB1"

\* The name of a section's tag, "" for a tag JPAResource.unpack does not
\* know and "?" for one that is not ASCII (decode raises).
MagicAt(buffer, offset) ==
    LET tag == Slice(buffer, offset, offset + 4)
        known == {"BEM1", "FLD1", "KFA1", "BSP1", "ESP1", "SSP1", "ETX1", "TDB1"}
    IN IF \E i \in 1 .. Len(tag) : tag[i] >= 128 THEN "?"
       ELSE IF \E m \in known : Magic(m) = tag
       THEN CHOOSE m \in known : Magic(m) = tag
       ELSE ""

\* One turn of the section loop of JPAResource.unpack.  st is
\* [ok, res, offset]; a turn that raises leaves ok = FALSE.
JPAResource_unpack_section(st, buffer, num_textures) ==
    LET offset == st.offset
        r == st.res
        magic == MagicAt(buffer, offset)
        size == get_s32(buffer, offset + 4)
        block == Slice(buffer, offset, offset + size)
        tdb == TDB1_unpack(block, num_textures)
        fail(x) == [ok |-> FALSE, res |-> x, offset |-> offset]
        done(x) == [ok |-> TRUE,
                    res |-> [x EXCEPT !.total_size = @ + size],
                    offset |-> offset + size]
        after(ok, x) == IF ok THEN done(x) ELSE fail(x)
    IN IF magic \in {"", "?"} \/ ~CanRead(buffer, offset + 4, 4) THEN fail(r)
       ELSE IF magic = "KFA1"
       THEN With(JPAKeyBlock_unpack(buffer, offset),
                 LAMBDA key :
                     after(key.ok, [r EXCEPT !.key_blocks =
                                       IF key.ok THEN Append(@, key.chunk) ELSE @]))
       ELSE IF magic = "BSP1"
       THEN With(JPABaseShape_unpack(buffer, offset),
                 LAMBDA bsp : after(bsp.ok, [r EXCEPT !.base_shape = <<bsp.shape>>]))
       ELSE IF magic = "TDB1"
       THEN after(tdb.ok, [r EXCEPT !.texture_ids = @ \o tdb.ids])
       ELSE With(JPAStandardChunk_unpack(magic, buffer, offset),
                 LAMBDA std :
                     CASE magic = "BEM1" ->
                            after(std.ok, [r EXCEPT !.dynamics_block = <<std.chunk>>])
                       [] magic = "FLD1" ->
                            after(std.ok, [r EXCEPT !.field_blocks =
                                              IF std.ok THEN Append(@, std.chunk) ELSE @])
                       [] magic = "ESP1" ->
                            after(std.ok, [r EXCEPT !.extra_shape = <<std.chunk>>])
                       [] magic = "SSP1" ->
                            after(std.ok, [r EXCEPT !.child_shape = <<std.chunk>>])
                       [] magic = "ETX1" ->
                            after(std.ok, [r EXCEPT !.ex_tex_shape = <<std.chunk>>]))

\* The turns i .. num_sections of that loop.
RECURSIVE JPAResource_unpack_sections(_, _, _, _, _)
JPAResource_unpack_sections(st, i, num_sections, buffer, num_textures) ==
    IF ~st.ok \/ i > num_sections THEN st
    ELSE With(JPAResource_unpack_section(st, buffer, num_textures),
              LAMBDA next :
                  JPAResource_unpack_sections(next, i + 1, num_sections, buffer,
                                              num_textures))

\* The two comparisons that end JPAResource.unpack pass, without the
\* inequality: only fewer blocks than declared are refused.
block_counts_at_least(num_key_blocks, num_field_blocks, r) ==
    /\ ~(num_key_blocks > Len(r.key_blocks))
    /\ ~(num_field_blocks > Len(r.field_blocks))

\* The two comparisons that end JPAResource.unpack pass: neither raises.
block_counts_agree(num_key_blocks, num_field_blocks, r) ==
    /\ ~(num_key_blocks # Len(r.key_blocks))
    /\ ~(num_field_blocks # Len(r.field_blocks))

\* JPAResource.unpack: [ok, res].  The members are reset, the header is
\* read with struct.unpack_from(">2h3B"), the sections are walked and the
\* two block counts are compared, the key blocks first.
JPAResource_unpack(buffer, offset) ==
    LET cleared == [name |-> NoName,
                    dynamics_block |-> <<>>, field_blocks |-> <<>>,
                    key_blocks |-> <<>>, base_shape |-> <<>>, extra_shape |-> <<>>,
                    child_shape |-> <<>>, ex_tex_shape |-> <<>>,
                    texture_ids |-> <<>>, texture_names |-> <<>>,
                    index |-> 0, total_size |-> 8]
        index == get_s16(buffer, offset)
        num_sections == get_s16(buffer, offset + 2)
        num_field_blocks == get_u8(buffer, offset + 4)
        num_key_blocks == get_u8(buffer, offset + 5)
        num_textures == get_u8(buffer, offset + 6)
        first == [ok |-> TRUE, res |-> [cleared EXCEPT !.index = index],
                  offset |-> offset + 8]
    IN IF ~CanRead(buffer, offset, 7) THEN [ok |-> FALSE, res |-> cleared]
       ELSE With(first, LAMBDA st :
            With(JPAResource_unpack_sections(st, 1, num_sections, buffer, num_textures),
                 LAMBDA last :
                     IF ~last.ok THEN [ok |-> FALSE, res |-> last.res]
                     ELSE IF ~block_counts_agree(num_key_blocks, num_field_blocks,
                                                 last.res)
                     THEN [ok |-> FALSE, res |-> last.res]
                     ELSE [ok |-> TRUE, res |-> last.res]))

\* The texture ID database with the padding forgotten.
TDB1_pack_unpadded(texture_ids) ==
    LET ids[i \in 0 .. Len(texture_ids)] ==
            IF i = 0 THEN Packed(<<>>)
            ELSE PackAppend(ids[i - 1], pack_s16(texture_ids[i]))
        out_tdb1 == ids[Len(texture_ids)].bytes
    IN IF ~ids[Len(texture_ids)].ok THEN PackError
       ELSE Packed(Magic("TDB1") \o pack_s32(Len(out_tdb1) + 8).bytes \o out_tdb1)

\* The texture ID database JPAResource.pack appends: the ids as s16,
\* padded to 4 bytes, behind the tag and the size.
TDB1_pack(texture_ids) ==
    LET ids[i \in 0 .. Len(texture_ids)] ==
            IF i = 0 THEN Packed(<<>>)
            ELSE PackAppend(ids[i - 1], pack_s16(texture_ids[i]))
        out_tdb1 == ids[Len(texture_ids)].bytes \o align4(ids[Len(texture_ids)].bytes)
    IN IF ~ids[Len(texture_ids)].ok THEN PackError
       ELSE Packed(Magic("TDB1") \o pack_s32(Len(out_tdb1) + 8).bytes \o out_tdb1)

\* A header whose block counts are written in the other order.
JPAResource_pack_header_swapped(index, num_field_blocks, num_key_blocks, num_textures) ==
    IF /\ index \in -32768 .. 32767
       /\ num_field_blocks <= U8Max /\ num_key_blocks <= U8Max /\ num_textures <= U8Max
    THEN Packed(pack_s16(index).bytes \o <<0, 0>>
                \o <<num_key_blocks, num_field_blocks, num_textures, 0>>)
    ELSE PackError

\* JPAResource.pack: struct.pack(">2h4B", self.index, 0, num_field_blocks,
\* num_key_blocks, num_textures, 0), which raises on a number its format
\* cannot hold.
JPAResource_pack_header(index, num_field_blocks, num_key_blocks, num_textures) ==
    IF /\ index \in -32768 .. 32767
       /\ num_field_blocks <= U8Max /\ num_key_blocks <= U8Max /\ num_textures <= U8Max
    THEN Packed(pack_s16(index).bytes \o <<0, 0>>
                \o <<num_field_blocks, num_key_blocks, num_textures, 0>>)
    ELSE PackError

\* JPAResource.pack: [ok, bytes, res].  The chunks are packed in the order
\* dynamics block, field blocks, key blocks, base shape, extra shape, child
\* shape, ex tex shape; num_sections starts at 1 for the TDB1 section.  A
\* chunk whose pack raises ends the call; the chunks packed before it have
\* kept their new stash.
JPAResource_pack(r) ==
    LET header == JPAResource_pack_header(r.index, Len(r.field_blocks),
                                          Len(r.key_blocks), Len(r.texture_ids))
        opt(magic, list) == [i \in 1 .. Len(list) |-> JPAStandardChunk_pack(magic, list[i])]
        packs == opt("BEM1", r.dynamics_block)
                 \o opt("FLD1", r.field_blocks)
                 \o [i \in 1 .. Len(r.key_blocks) |-> JPAKeyBlock_pack(r.key_blocks[i])]
                 \o [i \in 1 .. Len(r.base_shape) |->
                        With(JPABaseShape_pack(r.base_shape[i]),
                             LAMBDA s : [ok |-> s.ok, bytes |-> s.bytes,
                                         chunk |-> s.shape])]
                 \o opt("ESP1", r.extra_shape)
                 \o opt("SSP1", r.child_shape)
                 \o opt("ETX1", r.ex_tex_shape)
    IN With(packs, LAMBDA parts :
    LET n == Len(parts)
        \* the number of chunks whose pack is called and returns
        good == IF ~header.ok THEN 0
                ELSE IF \A i \in 1 .. n : parts[i].ok THEN n
                ELSE (CHOOSE i \in 1 .. n : ~parts[i].ok /\ \A k \in 1 .. i - 1 : parts[k].ok) - 1
        \* the key block whose pack raises has its key_count set all the same
        reached(i) == header.ok /\ i <= good + 1
        chunk(i) == IF reached(i) THEN parts[i].chunk
                    ELSE (r.dynamics_block \o r.field_blocks \o r.key_blocks
                          \o r.base_shape \o r.extra_shape \o r.child_shape
                          \o r.ex_tex_shape)[i]
        at(first, len) == [i \in 1 .. len |-> chunk(first + i - 1)]
        d == Len(r.dynamics_block)
        f == Len(r.field_blocks)
        k == Len(r.key_blocks)
        b == Len(r.base_shape)
        e == Len(r.extra_shape)
        c == Len(r.child_shape)
        stashed == [r EXCEPT !.dynamics_block = at(1, d),
                             !.field_blocks = at(d + 1, f),
                             !.key_blocks = at(d + f + 1, k),
                             !.base_shape = at(d + f + k + 1, b),
                             !.extra_shape = at(d + f + k + b + 1, e),
                             !.child_shape = at(d + f + k + b + e + 1, c),
                             !.ex_tex_shape = at(d + f + k + b + e + c + 1,
                                                 Len(r.ex_tex_shape))]
        body == Concat([i \in 1 .. n |-> parts[i].bytes])
        num_sections == pack_s16(1 + n)
        out_tdb1 == TDB1_pack(r.texture_ids)
        out_buf == SliceAssign(header.bytes \o body, 2, 4, num_sections.bytes)
                   \o out_tdb1.bytes
    IN IF good < n \/ ~header.ok \/ ~num_sections.ok \/ ~out_tdb1.ok
       THEN [ok |-> FALSE, bytes |-> <<>>, res |-> stashed]
       ELSE [ok |-> TRUE, bytes |-> out_buf,
             res |-> [stashed EXCEPT !.total_size = Len(out_buf)]])

(***************************************************************************)
(* The key/value documents of pack_json and unpack_json.  A dict is the    *)
(* sequence of its items [name, val] in insertion order.                   *)
(***************************************************************************)
\* name in entry.
entry_has(entry, name) == \E k \in 1 .. Len(entry) : entry[k].name = name

\* entry[name], for a name that is in entry.
entry_get(entry, name) ==
    entry[CHOOSE k \in 1 .. Len(entry) : entry[k].name = name].val

\* obj[name] = val: a present key keeps its place and takes the new value.
obj_set(obj, name, val) ==
    IF entry_has(obj, name)
    THEN [k \in 1 .. Len(obj) |->
             IF obj[k].name = name THEN [name |-> name, val |-> val] ELSE obj[k]]
    ELSE Append(obj, [name |-> name, val |-> val])

\* The digits of bytes.hex().
HexDigits ==
    <<"0", "1", "2", "3", "4", "5", "6", "7", "8", "9", "a", "b", "c", "d", "e", "f">>

\* bytes.hex(): two digits for each byte, the high one first.
hex(bytes) ==
    [k \in 1 .. 2 * Len(bytes) |->
        IF k % 2 = 1 THEN HexDigits[(bytes[(k + 1) \div 2] \div 16) + 1]
        ELSE HexDigits[(bytes[k \div 2] % 16) + 1]]

\* bytes.fromhex(string): [ok, bytes]; it raises for a digit that is none
\* and for an odd number of digits.
fromhex(string) ==
    LET digit(c) == CHOOSE d \in 0 .. 15 : HexDigits[d + 1] = c
        valid == /\ Len(string) % 2 = 0
                 /\ \A k \in 1 .. Len(string) :
                        \E d \in 1 .. 16 : HexDigits[d] = string[k]
    IN IF ~valid THEN [ok |-> FALSE, bytes |-> <<>>]
       ELSE [ok |-> TRUE,
             bytes |-> [i \in 1 .. Len(string) \div 2 |->
                           16 * digit(string[2 * i - 1]) + digit(string[2 * i])]]

\* FlagChunk.pack_json: obj[flag.name] = get_val_flag(flag) for every
\* assigned flag in order; [ok, obj], ok FALSE when a lookup raises.
RECURSIVE FlagChunk_pack_json(_, _, _, _)
FlagChunk_pack_json(flags, val, k, st) ==
    IF ~st.ok \/ k > Len(flags) THEN st
    ELSE With(get_val_flag(val, flags[k]),
              LAMBDA got :
                  IF ~got.ok THEN [st EXCEPT !.ok = FALSE]
                  ELSE FlagChunk_pack_json(flags, val, k + 1,
                           [st EXCEPT !.obj = obj_set(st.obj, flags[k].name, got.val)]))

\* FlagChunk.unpack_json stopping after self.val = 0: no flag is written.
FlagChunk_unpack_json_cleared(kind, flags, entry, k, st) == st

\* FlagChunk.unpack_json: self.val = 0, then set_val_flag(flag,
\* entry[flag.name]) for every assigned flag in order; st is [ok, val] and
\* enters with val = 0.  A missing key raises KeyError.
RECURSIVE FlagChunk_unpack_json(_, _, _, _, _)
FlagChunk_unpack_json(kind, flags, entry, k, st) ==
    IF ~st.ok \/ k > Len(flags) THEN st
    ELSE IF ~entry_has(entry, flags[k].name) THEN [st EXCEPT !.ok = FALSE]
    ELSE FlagChunk_unpack_json(kind, flags, entry, k + 1,
             [st EXCEPT !.val = set_val_flag(kind, st.val, flags[k],
                                             entry_get(entry, flags[k].name))])

\* pack_json of one typed chunk into obj: [ok, obj].  Offset.pack_json does
\* nothing; ConditionalChunk.pack_json writes only when the condition is
\* met; U32ChunkBytes.pack_json calls .hex() on the value, which an int
\* does not have.
Field_pack_json(F, vals, i, obj) ==
    LET f == F[i]
    IN CASE f.kind \in {"U8", "S8", "U16", "Bool", "F32"} ->
              [ok |-> TRUE, obj |-> obj_set(obj, f.name, vals[i])]
         [] f.kind = "Bytes4" ->
              IF vals[i] = NotBytes THEN [ok |-> FALSE, obj |-> obj]
              ELSE [ok |-> TRUE, obj |-> obj_set(obj, f.name, hex(vals[i]))]
         [] f.kind = "Offset" -> [ok |-> TRUE, obj |-> obj]
         [] f.kind = "Cond" ->
              IF is_condition_met(F, vals, f)
              THEN [ok |-> TRUE, obj |-> obj_set(obj, f.name, vals[i])]
              ELSE [ok |-> TRUE, obj |-> obj]
         [] IsFlagKind(f.kind) ->
              FlagChunk_pack_json(f.flags, vals[i], 1, [ok |-> TRUE, obj |-> obj])

\* unpack_json of one typed chunk from entry: [ok, val].
Field_unpack_json(F, vals, i, entry) ==
    LET f == F[i]
        item == IF entry_has(entry, f.name)
                THEN [ok |-> TRUE, val |-> entry_get(entry, f.name)]
                ELSE [ok |-> FALSE, val |-> vals[i]]
    IN CASE f.kind \in {"U8", "S8", "U16", "Bool", "F32"} -> item
         [] f.kind = "Bytes4" ->
              IF ~item.ok THEN item
              ELSE With(fromhex(item.val),
                        LAMBDA r : IF r.ok THEN [ok |-> TRUE, val |-> r.bytes]
                                   ELSE [ok |-> FALSE, val |-> vals[i]])
         [] f.kind = "Offset" -> [ok |-> TRUE, val |-> vals[i]]
         [] f.kind = "Cond" ->
              IF is_condition_met(F, vals, f) THEN item
              ELSE [ok |-> TRUE, val |-> vals[i]]
         [] IsFlagKind(f.kind) ->
              FlagChunk_unpack_json(f.kind, f.flags, entry, 1,
                                    [ok |-> TRUE, val |-> BigOf(0)])

\* The turns lo .. hi of the loop of JPAChunk.pack_json, in order (by
\* halves); st is [ok, obj].
RECURSIVE JPAChunk_pack_json_range(_, _, _, _, _)
JPAChunk_pack_json_range(F, vals, st, lo, hi) ==
    IF ~st.ok \/ lo > hi THEN st
    ELSE IF lo = hi THEN Field_pack_json(F, vals, lo, st.obj)
    ELSE With(JPAChunk_pack_json_range(F, vals, st, lo, (lo + hi) \div 2),
              LAMBDA half :
                  JPAChunk_pack_json_range(F, vals, half, (lo + hi) \div 2 + 1, hi))

\* JPAChunk.pack_json: obj = dict(); var.pack_json(obj) for every auto chunk.
JPAChunk_pack_json(F, vals) ==
    JPAChunk_pack_json_range(F, vals, [ok |-> TRUE, obj |-> <<>>], 1, Len(F))

\* The turns lo .. hi of the loop of JPAChunk.unpack_json; st is [ok, vals].
\* A conditional chunk reads its flag word as the turns before it left it.
RECURSIVE JPAChunk_unpack_json_range(_, _, _, _, _)
JPAChunk_unpack_json_range(F, st, lo, hi, entry) ==
    IF ~st.ok \/ lo > hi THEN st
    ELSE IF lo = hi
    THEN With(Field_unpack_json(F, st.vals, lo, entry),
              LAMBDA r : [ok |-> r.ok, vals |-> [st.vals EXCEPT ![lo] = r.val]])
    ELSE With(JPAChunk_unpack_json_range(F, st, lo, (lo + hi) \div 2, entry),
              LAMBDA half :
                  JPAChunk_unpack_json_range(F, half, (lo + hi) \div 2 + 1, hi, entry))

\* JPAChunk.unpack_json on a chunk holding vals.
JPAChunk_unpack_json(F, vals, entry) ==
    JPAChunk_unpack_json_range(F, [ok |-> TRUE, vals |-> vals], 1, Len(F), entry)

\* JPAStandardChunk.pack_json: the auto chunks, then the stash in hex.
JPAStandardChunk_pack_json(magic, c) ==
    With(JPAChunk_pack_json(auto_chunks(magic), c.vals),
         LAMBDA r :
             [ok |-> r.ok,
              obj |-> obj_set(r.obj, "BinaryDataDONOTEDIT", hex(c.binary_data))])

\* JPAStandardChunk.unpack_json on a new chunk: the stash first, then the
\* auto chunks.  [ok, chunk].
JPAStandardChunk_unpack_json(magic, entry) ==
    IF ~entry_has(entry, "BinaryDataDONOTEDIT")
    THEN [ok |-> FALSE, chunk |-> JPAStandardChunk_new(magic)]
    ELSE With(<<fromhex(entry_get(entry, "BinaryDataDONOTEDIT")),
                JPAChunk_unpack_json(auto_chunks(magic),
                                     DefaultVals(auto_chunks(magic)), entry)>>,
              LAMBDA r :
                  IF ~r[1].ok \/ ~r[2].ok
                  THEN [ok |-> FALSE, chunk |-> JPAStandardChunk_new(magic)]
                  ELSE [ok |-> TRUE,
                        chunk |-> [vals |-> r[2].vals, binary_data |-> r[1].bytes]])

\* The documents of a list of JPAKeyframe or JPAColorFrame: [ok, list].
Frames_pack_json(F, frames) ==
    With([i \in 1 .. Len(frames) |-> JPAChunk_pack_json(F, frames[i])],
         LAMBDA r :
             [ok |-> \A i \in 1 .. Len(r) : r[i].ok,
              list |-> [i \in 1 .. Len(r) |-> r[i].obj]])

\* A new frame for each document of a list, loaded with unpack_json.
Frames_unpack_json(F, new, list) ==
    With([i \in 1 .. Len(list) |-> JPAChunk_unpack_json(F, new, list[i])],
         LAMBDA r :
             [ok |-> \A i \in 1 .. Len(r) : r[i].ok,
              list |-> [i \in 1 .. Len(r) |-> r[i].vals]])

\* JPAKeyBlock.pack_json: the auto chunks, "Keyframes", the stash.
JPAKeyBlock_pack_json(c) ==
    With(<<JPAChunk_pack_json(JPAKeyBlock_auto_chunks, c.vals),
           Frames_pack_json(JPAKeyframe_auto_chunks, c.keyframes)>>,
         LAMBDA r :
             [ok |-> r[1].ok /\ r[2].ok,
              obj |-> obj_set(obj_set(r[1].obj, "Keyframes", r[2].list),
                              "BinaryDataDONOTEDIT", hex(c.binary_data))])

\* JPAKeyBlock.unpack_json on a new key block.
JPAKeyBlock_unpack_json(entry) ==
    With(JPAStandardChunk_unpack_json("KFA1", entry),
         LAMBDA r :
             IF ~r.ok \/ ~entry_has(entry, "Keyframes")
             THEN [ok |-> FALSE, chunk |-> JPAKeyBlock_new]
             ELSE With(Frames_unpack_json(JPAKeyframe_auto_chunks,
                                          DefaultVals(JPAKeyframe_auto_chunks),
                                          entry_get(entry, "Keyframes")),
                       LAMBDA keys :
                           IF ~keys.ok THEN [ok |-> FALSE, chunk |-> JPAKeyBlock_new]
                           ELSE [ok |-> TRUE,
                                 chunk |-> [vals |-> r.chunk.vals,
                                            binary_data |-> r.chunk.binary_data,
                                            keyframes |-> keys.list]]))

\* JPABaseShape.pack_json: the auto chunks, the stash, the texture indices
\* and the color keyframes of the animations that are enabled.
JPABaseShape_pack_json(s) ==
    With(<<JPAChunk_pack_json(JPABaseShape_auto_chunks, s.vals),
           Frames_pack_json(JPAColorFrame_auto_chunks, s.primary_color_data),
           Frames_pack_json(JPAColorFrame_auto_chunks, s.environment_color_data)>>,
         LAMBDA r :
    LET texOn == IsEnableTexAnim(s.vals)
        priOn == IsPrimaryColorAnimEnabled(s.vals)
        envOn == IsEnvironmentColorAnimEnabled(s.vals)
        obj1 == obj_set(r[1].obj, "BinaryDataDONOTEDIT", hex(s.binary_data))
        obj2 == obj_set(obj1, "TextureIndexAnimData",
                        IF texOn THEN s.texture_index_anim_data ELSE <<>>)
        obj3 == obj_set(obj2, "EnvironmentColorKeyframes",
                        IF envOn THEN r[3].list ELSE <<>>)
        obj4 == obj_set(obj3, "PrimaryColorKeyframes",
                        IF priOn THEN r[2].list ELSE <<>>)
    IN [ok |-> r[1].ok /\ (priOn => r[2].ok) /\ (envOn => r[3].ok),
        obj |-> obj4])

\* JPABaseShape.unpack_json on a new base shape.
JPABaseShape_unpack_json(entry) ==
    With(JPAChunk_unpack_json(JPABaseShape_auto_chunks,
                              DefaultVals(JPABaseShape_auto_chunks), entry),
         LAMBDA r :
    IF \/ ~r.ok
       \/ \E name \in {"BinaryDataDONOTEDIT", "TextureIndexAnimData",
                       "PrimaryColorKeyframes", "EnvironmentColorKeyframes"} :
              ~entry_has(entry, name)
    THEN [ok |-> FALSE, shape |-> JPABaseShape_new]
    ELSE With(<<fromhex(entry_get(entry, "BinaryDataDONOTEDIT")),
                Frames_unpack_json(JPAColorFrame_auto_chunks, JPAColorFrame_new,
                                   entry_get(entry, "PrimaryColorKeyframes")),
                Frames_unpack_json(JPAColorFrame_auto_chunks, JPAColorFrame_new,
                                   entry_get(entry, "EnvironmentColorKeyframes"))>>,
              LAMBDA x :
                  IF ~x[1].ok \/ ~x[2].ok \/ ~x[3].ok
                  THEN [ok |-> FALSE, shape |-> JPABaseShape_new]
                  ELSE [ok |-> TRUE,
                        shape |->
                          [vals |-> r.vals,
                           binary_data |-> x[1].bytes,
                           texture_index_anim_data |->
                               entry_get(entry, "TextureIndexAnimData"),
                           primary_color_data |-> x[2].list,
                           environment_color_data |-> x[3].list]]))

\* JPAResource.pack_json: [ok, entry].  A chunk attribute that is not None
\* is truthy; the two lists are written when they are not empty.
JPAResource_pack_json(r) ==
    With([dyn |-> [i \in 1 .. Len(r.dynamics_block) |->
                      JPAStandardChunk_pack_json("BEM1", r.dynamics_block[i])],
          fld |-> [i \in 1 .. Len(r.field_blocks) |->
                      JPAStandardChunk_pack_json("FLD1", r.field_blocks[i])],
          key |-> [i \in 1 .. Len(r.key_blocks) |->
                      JPAKeyBlock_pack_json(r.key_blocks[i])],
          bsp |-> [i \in 1 .. Len(r.base_shape) |->
                      JPABaseShape_pack_json(r.base_shape[i])],
          esp |-> [i \in 1 .. Len(r.extra_shape) |->
                      JPAStandardChunk_pack_json("ESP1", r.extra_shape[i])],
          ssp |-> [i \in 1 .. Len(r.child_shape) |->
                      JPAStandardChunk_pack_json("SSP1", r.child_shape[i])],
          etx |-> [i \in 1 .. Len(r.ex_tex_shape) |->
                      JPAStandardChunk_pack_json("ETX1", r.ex_tex_shape[i])]],
         LAMBDA d :
    LET objs(list) == [i \in 1 .. Len(list) |-> list[i].obj]
        one(entry, name, list) ==
            IF Len(list) > 0 THEN obj_set(entry, name, list[1].obj) ELSE entry
        many(entry, name, list) ==
            IF Len(list) > 0 THEN obj_set(entry, name, objs(list)) ELSE entry
        entry1 == one(<<>>, "dynamicsBlock", d.dyn)
        entry2 == many(entry1, "fieldBlocks", d.fld)
        entry3 == many(entry2, "keyBlocks", d.key)
        entry4 == one(entry3, "baseShape", d.bsp)
        entry5 == one(entry4, "extraShape", d.esp)
        entry6 == one(entry5, "childShape", d.ssp)
        entry7 == one(entry6, "exTexShape", d.etx)
        all == d.dyn \o d.fld \o d.key \o d.bsp \o d.esp \o d.ssp \o d.etx
    IN [ok |-> \A i \in 1 .. Len(all) : all[i].ok,
        entry |-> obj_set(entry7, "textures", r.texture_names)])

\* JPAResource.unpack_json on the resource r: [ok, res].  The lists are
\* cleared, and every chunk the entry has is loaded into a new chunk; a
\* chunk the entry lacks stays as it is.
JPAResource_unpack_json(r, entry) ==
    LET get(name) == IF entry_has(entry, name) THEN entry_get(entry, name) ELSE <<>>
        one(name) == IF entry_has(entry, name) THEN <<entry_get(entry, name)>> ELSE <<>>
    IN With([dyn |-> [i \in 1 .. Len(one("dynamicsBlock")) |->
                         JPAStandardChunk_unpack_json("BEM1", one("dynamicsBlock")[i])],
             fld |-> [i \in 1 .. Len(get("fieldBlocks")) |->
                         JPAStandardChunk_unpack_json("FLD1", get("fieldBlocks")[i])],
             key |-> [i \in 1 .. Len(get("keyBlocks")) |->
                         JPAKeyBlock_unpack_json(get("keyBlocks")[i])],
             bsp |-> [i \in 1 .. Len(one("baseShape")) |->
                         JPABaseShape_unpack_json(one("baseShape")[i])],
             esp |-> [i \in 1 .. Len(one("extraShape")) |->
                         JPAStandardChunk_unpack_json("ESP1", one("extraShape")[i])],
             ssp |-> [i \in 1 .. Len(one("childShape")) |->
                         JPAStandardChunk_unpack_json("SSP1", one("childShape")[i])],
             etx |-> [i \in 1 .. Len(one("exTexShape")) |->
                         JPAStandardChunk_unpack_json("ETX1", one("exTexShape")[i])]],
            LAMBDA d :
       LET chunks(list) == [i \in 1 .. Len(list) |-> list[i].chunk]
           kept(list, old) == IF Len(list) > 0 THEN chunks(list) ELSE old
           all == d.dyn \o d.fld \o d.key \o d.esp \o d.ssp \o d.etx
       IN [ok |-> /\ entry_has(entry, "textures")
                  /\ \A i \in 1 .. Len(all) : all[i].ok
                  /\ \A i \in 1 .. Len(d.bsp) : d.bsp[i].ok,
           res |-> [name |-> r.name,
                    dynamics_block |-> kept(d.dyn, r.dynamics_block),
                    field_blocks |-> chunks(d.fld),
                    key_blocks |-> chunks(d.key),
                    base_shape |->
                        IF Len(d.bsp) > 0 THEN <<d.bsp[1].shape>> ELSE r.base_shape,
                    extra_shape |-> kept(d.esp, r.extra_shape),
                    child_shape |-> kept(d.ssp, r.child_shape),
                    ex_tex_shape |-> kept(d.etx, r.ex_tex_shape),
                    texture_ids |-> <<>>,
                    texture_names |-> get("textures"),
                    index |-> -1,
                    total_size |-> 0]])

(***************************************************************************)
(* Resources as they are found in a file.  The bytes are built here field  *)
(* by field from the layout of the format, not with the packing code.      *)
(***************************************************************************)
\* n bytes of field data; every byte is below 100, so that no float among
\* them is a NaN.
Pattern(n, seed) == [i \in 1 .. n |-> (seed + 3 * i) % 100]

\* A section: tag, size (8 + the length of the body) and body.
Section(tag, body) ==
    [tag |-> tag,
     bytes |-> (IF tag = "XYZ1" THEN <<88, 89, 90, 49>> ELSE Magic(tag))
               \o <<0, 0, 0, 8 + Len(body)>> \o body]

\* BEM1: flag word (volume type in bits 8..10), 0x6C bytes of fields, the
\* rate step and 3 reserved bytes.
BemSection(volume_type, reserved) ==
    Section("BEM1", <<0, 0, volume_type, 5>> \o Pattern(108, 1) \o <<2>> \o reserved)

\* FLD1: flag word, 13 floats (the first one given), cycle, 3 reserved bytes.
FldSection(i, float) ==
    Section("FLD1", <<0, 0, 1, 3 + i>> \o float \o Pattern(48, 10 * i) \o <<i>> \o <<0, 0, 0>>)

\* KFA1: key type, count, unused byte, loop byte, count keyframes of 16 bytes.
KfaSection(i, count, loop) ==
    Section("KFA1", <<i, count, 7, loop>> \o Pattern(16 * count, 20 * i))

\* ESP1, SSP1 and ETX1: flag word and fields; ETX1 ends in a reserved byte.
EspSection == Section("ESP1", <<1, 0, 5, 3>> \o Pattern(84, 2))
SspSection == Section("SSP1", <<0, 1, 0, 18>> \o Pattern(60, 3))
EtxSection == Section("ETX1", <<0, 0, 1, 1>> \o Pattern(24, 4) \o <<254, 1, 2>> \o <<0>>)

BspSection(p) == [tag |-> "BSP1", bytes |-> BspBytes(p)]

\* TDB1: the ids (0 .. 65535, the s16 two's complement) and the padding.
TdbSection(ids, pad) ==
    Section("TDB1", Concat([i \in 1 .. Len(ids) |-> <<ids[i] \div 256, ids[i] % 256>>]) \o pad)

TdbPad(ids) == IF Len(ids) % 2 = 1 THEN <<0, 0>> ELSE <<>>

\* A resource in a file: the header fields, the sections and the bytes that
\* follow the resource in the buffer.  canonical says whether the bytes are
\* laid out the way JPAResource.pack lays a resource out.
ResParam(index, nsec, nfld, nkey, ntex, byte7, secs, trail, canonical, label) ==
    [index |-> index, nsec |-> nsec, nfld |-> nfld, nkey |-> nkey, ntex |-> ntex,
     byte7 |-> byte7, secs |-> secs, trail |-> trail, canonical |-> canonical,
     label |-> label]

SectionBytes(secs) == Concat([i \in 1 .. Len(secs) |-> secs[i].bytes])

ResBytes(p) ==
    <<p.index \div 256, p.index % 256, p.nsec \div 256, p.nsec % 256,
      p.nfld, p.nkey, p.ntex, p.byte7>>
    \o SectionBytes(p.secs) \o p.trail

\* The number of sections with a tag among the first nsec sections.
Declared(p, tag) ==
    Cardinality({i \in 1 .. Min(p.nsec, Len(p.secs)) : p.secs[i].tag = tag})

MaxBlocks == 2

FldSections(f) == [i \in 1 .. f |-> FldSection(i, <<62, 0, 0, i>>)]
KfaSections(k) == [i \in 1 .. k |-> KfaSection(i, i, i % 2)]

\* The sections behind the field and key blocks: bsp is <<>> or holds the
\* parameters of a base shape, rest says whether ESP1, SSP1 and ETX1 exist.
ShapeSections(bsp, rest) ==
    [i \in 1 .. Len(bsp) |-> BspSection(bsp[i])]
    \o (IF rest THEN <<EspSection, SspSection, EtxSection>> ELSE <<>>)

\* A resource as JPAResource.pack writes one.
Canonical(index, dyn, f, k, bsp, rest, ids, label) ==
    LET secs == dyn \o FldSections(f) \o KfaSections(k) \o ShapeSections(bsp, rest)
                \o <<TdbSection(ids, TdbPad(ids))>>
    IN ResParam(index, Len(secs), f, k, Len(ids), 0, secs, <<>>, TRUE, label)

TextureIdLists == {<<>>, <<1>>, <<2, 0, 65535>>}

\* The canonical resources: with every section, with a dynamics block and
\* a base shape only, and with no chunk at all; one has a volume type that
\* is no member of VolumeType, one is followed by other data.
CanonicalInputs ==
    { Canonical(5, <<BemSection(2, <<0, 0, 0>>)>>, f, k, <<s>>, TRUE, ids, "full") :
        f \in 0 .. MaxBlocks, k \in 0 .. MaxBlocks, s \in ShapeInputs,
        ids \in TextureIdLists }
    \cup { Canonical(65535, <<BemSection(2, <<0, 0, 0>>)>>, f, k, <<s>>, FALSE, <<1>>, "basic") :
             f \in 0 .. MaxBlocks, k \in 0 .. MaxBlocks,
             s \in {t \in ShapeInputs : t.scroll = 1} }
    \cup { Canonical(0, <<>>, f, k, <<>>, FALSE, <<>>, "bare") :
             f \in 0 .. MaxBlocks, k \in 0 .. MaxBlocks }
    \cup { Canonical(1, <<BemSection(7, <<0, 0, 0>>)>>, 1, 1, <<>>, TRUE, <<0>>, "enum") }
    \cup { [Canonical(2, <<>>, 1, 0, <<>>, FALSE, <<3>>, "trail")
               EXCEPT !.trail = <<0, 9, 0, 0>>] }

\* Resources whose header counts are any of 0 .. MaxBlocks, whatever the
\* number of FLD1 and KFA1 sections.
CountInputs ==
    { [Canonical(3, <<>>, f, k, <<>>, FALSE, <<>>, "counts")
          EXCEPT !.nfld = nf, !.nkey = nk, !.canonical = (nf = f /\ nk = k)] :
        f \in 0 .. MaxBlocks, k \in 0 .. MaxBlocks,
        nf \in 0 .. MaxBlocks, nk \in 0 .. MaxBlocks }

\* Resources unpack accepts or refuses that are laid out otherwise.
OtherInputs ==
    LET bem == BemSection(2, <<0, 0, 0>>)
        bsp == BspSection(ShapeParam(0, 2, TRUE, <<4, 5>>, TRUE, <<1>>, TRUE, <<2, 3>>))
        tdb == TdbSection(<<1>>, <<0, 0>>)
        other(nf, nk, ntex, byte7, secs, label) ==
            ResParam(4, Len(secs), nf, nk, ntex, byte7, secs, <<>>, FALSE, label)
    IN { other(1, 0, 1, 0, <<tdb, bsp, FldSection(1, <<62, 0, 0, 1>>), bem>>, "order"),
         other(0, 0, 1, 1, <<bem, bsp, tdb>>, "byte7"),
         other(0, 0, 1, 0, <<BemSection(2, <<0, 0, 1>>), bsp, tdb>>, "reserved"),
         other(0, 0, 1, 0, <<BemSection(7, <<0, 0, 1>>), bsp, tdb>>, "reserved enum"),
         other(0, 1, 1, 0, <<bem, KfaSection(1, 1, 2), bsp, tdb>>, "bool"),
         other(1, 0, 1, 0, <<bem, FldSection(1, <<127, 160, 0, 0>>), bsp, tdb>>, "nan"),
         other(0, 0, 1, 0, <<bem, bsp, Section("ETX1", <<0, 0, 1, 1>> \o Pattern(24, 4)
                                        \o <<254, 1, 2, 0, 9, 9, 9, 9>>), tdb>>, "junk"),
         other(0, 0, 0, 0, <<bem, bsp>>, "no tdb"),
         other(0, 0, 1, 0, <<bem, BemSection(3, <<0, 0, 0>>), bsp, tdb>>, "twice"),
         other(0, 0, 1, 0, <<bem, bsp, TdbSection(<<1>>, <<0, 1>>)>>, "padding"),
         other(0, 0, 1, 0, <<bem, bsp, TdbSection(<<1, 2>>, <<>>)>>, "fewer ids"),
         other(0, 0, 1, 0, <<bem, bsp, TdbSection(<<1>>, <<>>)>>, "no padding"),
         [other(1, 0, 1, 0, <<bem, bsp, tdb, FldSection(1, <<62, 0, 0, 1>>)>>, "undeclared")
             EXCEPT !.nsec = 3],
         other(0, 0, 1, 0, <<bem, bsp, Section("ETX1", <<0, 0, 1, 3>> \o Pattern(24, 4)
                                        \o <<254, 1, 2, 0>>), tdb>>, "spare bit"),
         other(0, 0, 1, 0, <<bem, Section("XYZ1", <<0, 0, 0, 0>>), tdb>>, "unknown"),
         other(0, 0, 3, 0, <<bem, bsp, tdb>>, "short tdb"),
         [other(0, 0, 1, 0, <<bem, bsp, tdb>>, "missing") EXCEPT !.nsec = 4] }

ResourceInputs == CanonicalInputs \cup CountInputs \cup OtherInputs

\* imported holds the resource import_particles built last, if any.
ResObsOf(op, ok, p, consumed, out) ==
    [op |-> op, ok |-> ok, p |-> p, consumed |-> consumed, out |-> out,
     imported |-> <<>>]

NoParam == ResParam(0, 0, 0, 0, 0, 0, <<>>, <<>>, FALSE, "")

\* JParticlesContainer.unpack: particle = JPAResource().
ResInit ==
    /\ res = JPAResource_new
    /\ resObs = ResObsOf("new", TRUE, NoParam, <<>>, <<>>)
    /\ NoFlagWord /\ NoShape /\ NoContainer

\* JParticlesContainer.unpack: particle.unpack(buffer, next_offset) on the
\* new resource.  consumed is the part of the buffer that total_size covers.
ResUnpack ==
    \E p \in ResourceInputs :
      \E buffer \in {ResBytes(p)} :
      \E r \in {JPAResource_unpack(buffer, 0)} :
        /\ resObs.op = "new"
        /\ res' = r.res
        /\ resObs' = ResObsOf("unpack", r.ok, p, Slice(buffer, 0, r.res.total_size), <<>>)
        /\ UNCHANGED notResVars

\* JParticlesContainer.pack: particle.pack(), on a resource whose
\* construction or unpack has returned.
ResPack ==
    \E r \in {JPAResource_pack(res)} :
    /\ resObs.ok
    /\ res' = r.res
    /\ resObs' = [resObs EXCEPT !.op = "pack", !.ok = r.ok, !.out = r.bytes]
    /\ UNCHANGED notResVars

\* export_particles on the resource, then import_particles on the file it
\* wrote: particle.pack_json() is the document, and a new JPAResource is
\* loaded from it with unpack_json.  The resource itself is left alone.
ResJson ==
    \E doc \in {JPAResource_pack_json(res)} :
    \E r \in {IF doc.ok THEN JPAResource_unpack_json(JPAResource_new, doc.entry)
              ELSE [ok |-> FALSE, res |-> JPAResource_new]} :
    /\ resObs.op = "unpack" /\ resObs.ok
    /\ res' = res
    /\ resObs' = [resObs EXCEPT !.op = "json", !.ok = r.ok,
                                !.imported = IF r.ok THEN <<r.res>> ELSE <<>>]
    /\ UNCHANGED notResVars

ResNext == ResUnpack \/ ResPack \/ ResJson

SpecResource == ResInit /\ [][ResNext]_vars

(***************************************************************************)
(* One typed chunk on its own: a U8Chunk, S8Chunk, U16Chunk, U32Chunk,     *)
(* F32Chunk, BoolChunk or U32ChunkBytes as its constructor leaves it, then *)
(* decoded from buffers (as JPAChunk.unpack does for each auto chunk) and  *)
(* written by set_val (as the editor's valueChanged handlers do).  The     *)
(* value of an integer chunk is a pair here, as that of a flag word.       *)
(***************************************************************************)
IntegerKinds == {"U8", "S8", "U16", "U32"}

FieldKinds == IntegerKinds \cup {"F32", "Bool", "Bytes4"}

\* self.size as each constructor sets it.
WidthOf(kind) ==
    CASE kind \in {"U8", "S8", "Bool"} -> 1
      [] kind = "U16" -> 2
      [] kind \in {"U32", "F32", "Bytes4"} -> 4

\* The value each constructor stores, the default_val of its signature.
ConstructedVal(kind) ==
    CASE kind \in IntegerKinds -> BigOf(0)
      [] kind = "Bool" -> 0
      [] kind = "F32" -> Zeros(4)
      [] kind = "Bytes4" -> NotBytes

\* unpack(buffer, offset) of the typed chunk: [ok, val].  Flag32Chunk takes
\* its unpack from U32Chunk, so the descriptor of a flag word stands for a
\* U32Chunk.
TypedChunk_unpack(kind, val, buffer, offset) ==
    LET f == Field("Value", IF kind = "U32" THEN "Flag32" ELSE kind, WidthOf(kind))
        r == Field_unpack(<<f>>, <<val>>, 1, buffer, offset)
    IN [ok |-> r.ok,
        val |-> IF r.ok /\ kind \in {"U8", "S8", "U16"} THEN BigOf(r.val) ELSE r.val]

\* S8Chunk.set_val: the test reads the value stored before the call.
S8Chunk_set_val(val, new_val) ==
    IF BigGt(val, BigOf(127)) THEN BigOf(127)
    ELSE IF BigLt(val, BigOf(-127)) THEN BigOf(-127)
    ELSE new_val

\* set_val(new_val) of the typed chunk: the value it stores.  F32Chunk,
\* BoolChunk and U32ChunkBytes have TypedChunk.set_val, an assignment.
TypedChunk_set_val(kind, val, new_val) ==
    CASE kind = "U8" -> U8Chunk_set_val(val, new_val)
      [] kind = "S8" -> S8Chunk_set_val(val, new_val)
      [] kind = "U16" -> U16Chunk_set_val(val, new_val)
      [] kind = "U32" -> U32Chunk_set_val(val, new_val)
      [] OTHER -> new_val

\* The buffers a chunk is decoded from, and the offsets.
FieldBuffers == {<<>>, <<200>>, <<1, 2>>, <<0, 1, 2>>, <<63, 128, 0, 0>>,
                 <<255, 255, 255, 255, 7>>}

FieldOffsets == 0 .. 2

\* The arguments of set_val: numbers inside and outside every range for the
\* integer chunks, a float, and bytes objects of 0, 2 and 4 bytes.
SetValues(kind) ==
    CASE kind \in IntegerKinds ->
             {BigOf(-200), BigOf(-1), BigOf(0), BigOf(100), BigOf(300),
              BigOf(70000), Big(U32Hi, U16Max), Big(U32Hi + 1, 0)}
      [] kind = "Bool" -> {0, 1}
      [] kind = "F32" -> {FloatOne}
      [] kind = "Bytes4" -> {<<>>, <<9, 8>>, <<9, 8, 7, 6>>}

FieldObs(op, ok, prev, buffer, offset, new_val) ==
    [op |-> op, ok |-> ok, prev |-> prev, buffer |-> buffer, offset |-> offset,
     new_val |-> new_val]

\* The constructor of the chunk.
FieldInit ==
    /\ \E kind \in FieldKinds : word = [kind |-> kind, val |-> ConstructedVal(kind)]
    /\ flagObs = FieldObs("init", TRUE, <<>>, <<>>, 0, <<>>)
    /\ writes = 0
    /\ NoShape /\ NoResource /\ NoContainer

\* JPAChunk.unpack: var.unpack(buffer, offset).  When the call raises, the
\* chunk is as the call left it.
FieldUnpack ==
    \E buffer \in FieldBuffers, offset \in FieldOffsets :
      \E r \in {TypedChunk_unpack(word.kind, word.val, buffer, offset)} :
        /\ word' = [word EXCEPT !.val = r.val]
        /\ flagObs' = FieldObs("unpack", r.ok, word.val, buffer, offset, <<>>)
        /\ UNCHANGED <<writes, notFlagVars>>

\* A valueChanged handler of the editor: chunk.set_val(new_val).
FieldSetVal ==
    \E new_val \in SetValues(word.kind) :
        /\ writes < MaxWrites
        /\ word' = [word EXCEPT !.val = TypedChunk_set_val(word.kind, word.val, new_val)]
        /\ flagObs' = FieldObs("set_val", TRUE, word.val, <<>>, 0, new_val)
        /\ writes' = writes + 1
        /\ UNCHANGED notFlagVars

FieldNext == FieldUnpack \/ FieldSetVal

SpecField == FieldInit /\ [][FieldNext]_vars

(***************************************************************************)
(* The key blocks of a particle in the editor: keyframes are added to and  *)
(* removed from the key block selected in the block tree, and the particle *)
(* is packed when the file is saved.                                       *)
(***************************************************************************)
\* A KFA1 section with as many keyframes as the KeyCount byte can hold;
\* its size is 8 + 4 + 16 * 255.
KfaFull ==
    [tag |-> "KFA1",
     bytes |-> Magic("KFA1") \o <<0, 0, 15, 252>> \o <<1, U8Max, 0, 0>>
               \o Pattern(16 * U8Max, 5)]

\* Particles with 1 .. MaxBlocks key blocks of 1, 2, ... keyframes, and a
\* particle whose key block is full.
KeyInputs ==
    { Canonical(0, <<>>, 0, k, <<>>, FALSE, <<>>, "keys") : k \in 1 .. MaxBlocks }
    \cup { ResParam(0, 2, 0, 1, 0, 0, <<KfaFull, TdbSection(<<>>, <<>>)>>, <<>>,
                    TRUE, "full keys") }

KeyObsOf(op, ok, loaded, edits, out) ==
    [op |-> op, ok |-> ok, loaded |-> loaded, edits |-> edits, out |-> out,
     block |-> 0]

KeyInit ==
    /\ res = JPAResource_new
    /\ resObs = KeyObsOf("new", TRUE, FALSE, 0, <<>>)
    /\ NoFlagWord /\ NoShape /\ NoContainer

\* JParticlesContainer.unpack: particle.unpack(buffer, next_offset).
KeyUnpack ==
    \E p \in KeyInputs :
      \E r \in {JPAResource_unpack(ResBytes(p), 0)} :
        /\ resObs.op = "new"
        /\ res' = r.res
        /\ resObs' = KeyObsOf("unpack", r.ok, r.ok, 0, <<>>)
        /\ UNCHANGED notResVars

\* The rows of the keyframe tree the runs select: the first ones and the
\* last one.
Selectable(n) == {i \in 1 .. n : i <= MaxFrames + 1 \/ i = n}

\* add_keyframe: a new JPAKeyframe is appended to the keyframes of the key
\* block that is the current item of the block tree.
add_keyframe ==
    \E block \in 1 .. Len(res.key_blocks) :
        /\ resObs.loaded
        /\ resObs.edits < MaxEdits
        /\ res' = [res EXCEPT !.key_blocks[block].keyframes =
                                  Append(@, DefaultVals(JPAKeyframe_auto_chunks))]
        /\ resObs' = [resObs EXCEPT !.op = "add keyframe", !.edits = @ + 1]
        /\ UNCHANGED notResVars

\* remove_selected_keyframe: the keyframe of the current item of the
\* keyframe tree is removed from the keyframes of the current key block.
remove_selected_keyframe ==
    \E block \in 1 .. Len(res.key_blocks) :
      \E index \in Selectable(Len(res.key_blocks[block].keyframes)) :
        /\ resObs.loaded
        /\ resObs.edits < MaxEdits
        /\ res' = [res EXCEPT !.key_blocks[block].keyframes = Remove(@, index)]
        /\ resObs' = [resObs EXCEPT !.op = "remove keyframe", !.edits = @ + 1]
        /\ UNCHANGED notResVars

\* JParticlesContainer.pack: particle.pack(), which packs every key block.
KeyPack ==
    \E r \in {JPAResource_pack(res)} :
    /\ resObs.loaded
    /\ res' = r.res
    /\ resObs' = [resObs EXCEPT !.op = "pack", !.ok = r.ok, !.out = r.bytes]
    /\ UNCHANGED notResVars

\* JPAKeyBlock.unpack called on a key block the particle already holds,
\* with a KFA1 section of one of the files.
KeyBlockUnpack ==
    \E block \in 1 .. Len(res.key_blocks) :
      \E p \in KeyInputs :
        \E k \in 1 .. p.nkey :
          \E r \in {JPAKeyBlock_unpack_into(res.key_blocks[block],
                                            p.secs[k].bytes, 0)} :
            /\ resObs.loaded
            /\ resObs.edits < MaxEdits
            /\ res' = [res EXCEPT !.key_blocks[block] = r.chunk]
            /\ resObs' = [resObs EXCEPT !.op = "unpack block", !.ok = r.ok,
                                        !.edits = @ + 1, !.block = block]
            /\ UNCHANGED notResVars

KeyNext ==
    \/ KeyUnpack
    \/ add_keyframe
    \/ remove_selected_keyframe
    \/ KeyBlockUnpack
    \/ KeyPack

SpecKeys == KeyInit /\ [][KeyNext]_vars

(***************************************************************************)
(* The container: textures keyed by file name, in insertion order, and     *)
(* the resources.  A file name is the sequence of its character codes.     *)
(***************************************************************************)
\* pyaurum.read_fixed_string: the bytes before the first NUL among length
\* bytes.
read_fixed_string(buffer, offset, length) ==
    LET s == Slice(buffer, offset, offset + length)
        nul == {i \in 1 .. Len(s) : s[i] = 0}
    IN IF nul = {} THEN s
       ELSE SubSeq(s, 1, (CHOOSE i \in nul : \A k \in nul : i <= k) - 1)

\* pyaurum.pack_fixed_string: the name cut or NUL-padded to length bytes.
pack_fixed_string(s, length) ==
    SubSeq(s, 1, Min(Len(s), length)) \o Zeros(length - Min(Len(s), length))

\* JPATexture.__init__.
JPATexture_new == [file_name |-> <<>>, bti_data |-> <<>>, total_size |-> 0]

\* JPATexture.unpack on a new JPATexture: [ok, texture].
JPATexture_unpack(buffer, offset) ==
    LET total_size == get_s32(buffer, offset + 4)
    IN IF ~CanRead(buffer, offset + 4, 4) THEN [ok |-> FALSE, texture |-> JPATexture_new]
       ELSE [ok |-> TRUE,
             texture |-> [file_name |-> read_fixed_string(buffer, offset + 12, 20),
                          bti_data |-> Slice(buffer, offset + 32, offset + total_size),
                          total_size |-> total_size]]

\* JPATexture.pack: [bytes, texture]; the tag is 0x54455831 ("TEX1").
JPATexture_pack(t) ==
    LET out_name == pack_fixed_string(t.file_name, 20)
        out_pad_bti == align32(t.bti_data)
        total_size == 32 + Len(t.bti_data) + Len(out_pad_bti)
    IN [bytes |-> <<84, 69, 88, 49>> \o pack_s32(total_size).bytes \o <<0, 0, 0, 0>>
                  \o out_name \o t.bti_data \o out_pad_bti,
        texture |-> [t EXCEPT !.total_size = total_size]]

\* list(self.textures.keys()).
keys(textures) == [i \in 1 .. Len(textures) |-> textures[i].file_name]

\* self.textures[file_name] = texture: a key the dict holds keeps its
\* place, a new key goes to the end.
dict_set(textures, texture) ==
    IF \E i \in 1 .. Len(textures) : textures[i].file_name = texture.file_name
    THEN [i \in 1 .. Len(textures) |->
             IF textures[i].file_name = texture.file_name THEN texture ELSE textures[i]]
    ELSE Append(textures, texture)

\* JParticlesContainer.__init__.
JParticlesContainer_new == [particles |-> <<>>, textures |-> <<>>]

\* The texture loop of JParticlesContainer.unpack, turns i .. num_textures;
\* st is [ok, filenames, textures, offset].
RECURSIVE unpack_textures(_, _, _, _)
unpack_textures(st, i, num_textures, buffer) ==
    IF i > num_textures \/ ~st.ok THEN st
    ELSE With(JPATexture_unpack(buffer, st.offset),
              LAMBDA t :
                  unpack_textures(
                      IF ~t.ok THEN [st EXCEPT !.ok = FALSE]
                      ELSE [ok |-> TRUE,
                            filenames |-> Append(st.filenames, t.texture.file_name),
                            textures |-> dict_set(st.textures, t.texture),
                            offset |-> st.offset + t.texture.total_size],
                      i + 1, num_textures, buffer))

\* texture_filenames[texture_index] for every id of a resource: [ok,
\* names]; an id outside -len .. len - 1 raises IndexError, a negative id
\* counts from the end.
names_of_ids(texture_filenames, texture_ids) ==
    LET n == Len(texture_filenames)
    IN IF \E j \in 1 .. Len(texture_ids) : texture_ids[j] \notin -n .. n - 1
       THEN [ok |-> FALSE, names |-> <<>>]
       ELSE [ok |-> TRUE,
             names |-> [j \in 1 .. Len(texture_ids) |->
                           texture_filenames[((texture_ids[j] + n) % n) + 1]]]

\* The resource loop of JParticlesContainer.unpack, turns i ..
\* num_particles; st is [ok, particles, offset].  A resource whose unpack
\* or whose name lookup raises is not appended.
RECURSIVE unpack_particles(_, _, _, _, _)
unpack_particles(st, i, num_particles, texture_filenames, buffer) ==
    IF i > num_particles \/ ~st.ok THEN st
    ELSE With(JPAResource_unpack(buffer, st.offset),
              LAMBDA r :
         With(names_of_ids(texture_filenames, r.res.texture_ids),
              LAMBDA n :
                  unpack_particles(
                      IF ~r.ok \/ ~n.ok THEN [st EXCEPT !.ok = FALSE]
                      ELSE [ok |-> TRUE,
                            particles |-> Append(st.particles,
                                                 [r.res EXCEPT !.texture_names = n.names]),
                            offset |-> st.offset + r.res.total_size],
                      i + 1, num_particles, texture_filenames, buffer)))

\* "JPAC2-10".
JPAC2_10 == <<74, 80, 65, 67, 50, 45, 49, 48>>

\* The magic read as the one expected, whatever the buffer holds.
get_magic8_expected(buffer, offset) == JPAC2_10

\* pyaurum.get_magic8(buffer, offset): the 8 bytes at offset.
get_magic8(buffer, offset) == Slice(buffer, offset, offset + 8)

\* JParticlesContainer.unpack: [ok, cont].  The textures are parsed first;
\* when the call raises, the container holds what was parsed before.
JParticlesContainer_unpack(buffer, offset) ==
    LET num_particles == get_u16(buffer, offset + 8)
        num_textures == get_u16(buffer, offset + 10)
        off_textures == get_u32(buffer, offset + 12)
        \* an offset of 2^16 or more lies behind every buffer of this model
        next_offset == IF off_textures.hi = 0 THEN offset + off_textures.lo
                       ELSE Len(buffer) + 1
    IN IF \/ get_magic8(buffer, offset) # JPAC2_10
          \/ ~CanRead(buffer, offset + 8, 8)
       THEN [ok |-> FALSE, cont |-> JParticlesContainer_new]
       ELSE With(unpack_textures([ok |-> TRUE, filenames |-> <<>>, textures |-> <<>>,
                                  offset |-> next_offset],
                                 1, num_textures, buffer),
                 LAMBDA t :
                     IF ~t.ok THEN [ok |-> FALSE,
                                    cont |-> [particles |-> <<>>, textures |-> t.textures]]
                     ELSE With(unpack_particles([ok |-> TRUE, particles |-> <<>>,
                                                 offset |-> offset + 16],
                                                1, num_particles, t.filenames, buffer),
                               LAMBDA p : [ok |-> p.ok,
                                           cont |-> [particles |-> p.particles,
                                                     textures |-> t.textures]]))

\* The lookup with a name that is no key answered by -1 instead of being
\* skipped.
texture_name_to_id_index_absent(texture_name_to_id, texture_name) ==
    LET at == {k \in 1 .. Len(texture_name_to_id) : texture_name_to_id[k] = texture_name}
    IN IF at = {} THEN [found |-> TRUE, id |-> -1]
       ELSE [found |-> TRUE, id |-> (CHOOSE k \in at : \A m \in at : k <= m) - 1]

\* texture_name_to_id.index(texture_name) under try/except ValueError:
\* [found, id].
texture_name_to_id_index(texture_name_to_id, texture_name) ==
    LET at == {k \in 1 .. Len(texture_name_to_id) : texture_name_to_id[k] = texture_name}
    IN IF at = {} THEN [found |-> FALSE, id |-> 0]
       ELSE [found |-> TRUE, id |-> (CHOOSE k \in at : \A m \in at : k <= m) - 1]

\* An append that leaves out an id the list holds already.
texture_ids_append_distinct(texture_ids, id) ==
    IF \E j \in 1 .. Len(texture_ids) : texture_ids[j] = id THEN texture_ids
    ELSE Append(texture_ids, id)

\* particle.texture_ids.append(texture_name_to_id.index(texture_name)).
texture_ids_append(texture_ids, id) == Append(texture_ids, id)

\* The ids with texture_ids not cleared first: the ids the resource held
\* stay in front.
particle_texture_ids_kept(particle, texture_name_to_id) ==
    LET ids[j \in 0 .. Len(particle.texture_names)] ==
            IF j = 0 THEN particle.texture_ids
            ELSE With(texture_name_to_id_index(texture_name_to_id,
                                               particle.texture_names[j]),
                      LAMBDA x : IF x.found THEN texture_ids_append(ids[j - 1], x.id)
                                 ELSE ids[j - 1])
    IN ids[Len(particle.texture_names)]

\* The ids JParticlesContainer.pack leaves in particle.texture_ids: the
\* list is cleared, then the id of every name that is found is appended.
particle_texture_ids(particle, texture_name_to_id) ==
    LET ids[j \in 0 .. Len(particle.texture_names)] ==
            IF j = 0 THEN <<>>
            ELSE With(texture_name_to_id_index(texture_name_to_id,
                                               particle.texture_names[j]),
                      LAMBDA x : IF x.found THEN texture_ids_append(ids[j - 1], x.id)
                                 ELSE ids[j - 1])
    IN ids[Len(particle.texture_names)]

\* JParticlesContainer.pack: [ok, bytes, cont].  A resource whose pack
\* raises ends the call; the resources before it, and that one, hold
\* their new texture_ids and what their own pack left.
JParticlesContainer_pack(c) ==
    LET n == Len(c.particles)
        texture_name_to_id == keys(c.textures)
        header == IF n <= 65535 /\ Len(c.textures) <= 65535
                  THEN Packed(JPAC2_10 \o pack_u16(n).bytes
                              \o pack_u16(Len(c.textures)).bytes \o <<0, 0, 0, 0>>)
                  ELSE PackError
    IN With([i \in 1 .. n |->
                JPAResource_pack([c.particles[i] EXCEPT !.texture_ids =
                                     particle_texture_ids(c.particles[i],
                                                          texture_name_to_id)])],
            LAMBDA packs :
       With([k \in 1 .. Len(c.textures) |-> JPATexture_pack(c.textures[k])],
            LAMBDA texs :
       LET bad == {i \in 1 .. n : ~packs[i].ok}
           last == IF ~header.ok THEN 0
                   ELSE IF bad = {} THEN n
                   ELSE CHOOSE i \in bad : \A k \in bad : i <= k
           particles == [i \in 1 .. n |->
                            IF i <= last THEN packs[i].res ELSE c.particles[i]]
           body == header.bytes \o Concat([i \in 1 .. n |-> packs[i].bytes])
           aligned == body \o align32(body)
           off_textures == pack_u32(BigOf(Len(aligned)))
           out_buf == SliceAssign(aligned, 12, 16, off_textures.bytes)
                      \o Concat([k \in 1 .. Len(texs) |-> texs[k].bytes])
       IN IF ~header.ok \/ bad # {}
          THEN [ok |-> FALSE, bytes |-> <<>>,
                cont |-> [c EXCEPT !.particles = particles]]
          ELSE [ok |-> TRUE, bytes |-> out_buf,
                cont |-> [particles |-> particles,
                          textures |-> [k \in 1 .. Len(texs) |-> texs[k].texture]]]))

(***************************************************************************)
(* Containers as they are found in a file, built field by field, and the   *)
(* files the editor imports.                                               *)
(***************************************************************************)
NameA == <<97>>
NameB == <<98>>
NameC == <<99>>
NameD == <<100>>

\* A TEX1 block of a file: tag, size, 4 zero bytes, the name in 0x14 bytes
\* and the BTI data.
TexBlock(name, bti) ==
    <<84, 69, 88, 49>> \o <<0, 0, 0, 32 + Len(bti)>> \o <<0, 0, 0, 0>>
    \o name \o Zeros(20 - Len(name)) \o bti

\* A resource with a dynamics block, a plain base shape and the given ids.
ContParticle(index, ids) ==
    Canonical(index, <<BemSection(2, <<0, 0, 0>>)>>, 0, 0,
              <<ShapeParam(0, 2, FALSE, <<>>, FALSE, <<>>, FALSE, <<>>)>>, FALSE,
              ids, "cont")

\* A resource whose second section has a tag JPAResource.unpack does not
\* know, behind a dynamics block and in front of the texture ids.
UnknownTagParticle ==
    ResParam(1, 3, 0, 0, 1, 0,
             <<BemSection(2, <<0, 0, 0>>), Section("XYZ1", <<0, 0, 0, 0>>),
               TdbSection(<<1>>, <<0, 0>>)>>, <<>>, FALSE, "unknown")

ContParam(magic, names, particles, label) ==
    [magic |-> magic, names |-> names, particles |-> particles, label |-> label]

\* The file: magic, the two counts, the offset of the textures, the
\* resources, the padding to 32 bytes and the textures.
ContBytes(p) ==
    LET body == Concat([i \in 1 .. Len(p.particles) |-> ResBytes(p.particles[i])])
        pad == Zeros((32 - ((16 + Len(body)) % 32)) % 32)
        off == 16 + Len(body) + Len(pad)
    IN p.magic \o <<0, Len(p.particles), 0, Len(p.names)>>
       \o <<0, 0, off \div 256, off % 256>> \o body \o pad
       \o Concat([k \in 1 .. Len(p.names) |-> TexBlock(p.names[k], Pattern(32, k))])

\* Files with three textures, with a file name held twice, with an id that
\* counts from the end, with an id past the last texture, with no
\* resource, with an unknown section tag in the second of three resources
\* and with another magic.
ContainerInputs ==
    { ContParam(JPAC2_10, <<NameA, NameB, NameC>>,
                <<ContParticle(0, <<2, 0, 2>>), ContParticle(1, <<1>>)>>, "three"),
      ContParam(JPAC2_10, <<NameA, NameB, NameA>>,
                <<ContParticle(0, <<2, 1>>)>>, "twice"),
      ContParam(JPAC2_10, <<NameA, NameB>>,
                <<ContParticle(0, <<65535>>), ContParticle(1, <<>>)>>, "last"),
      ContParam(JPAC2_10, <<NameA>>, <<ContParticle(0, <<1>>)>>, "range"),
      ContParam(JPAC2_10, <<NameC>>, <<>>, "empty"),
      ContParam(JPAC2_10, <<NameA, NameB>>,
                <<ContParticle(0, <<0>>), UnknownTagParticle, ContParticle(2, <<1>>)>>,
                "unknown"),
      ContParam(<<74, 80, 65, 67, 49, 45, 48, 48>>, <<NameA>>,
                <<ContParticle(0, <<0>>)>>, "magic") }

\* A BTI file picked in the import dialog: its name, its bytes and whether
\* it can be read.
File(name, bti, readable) == [name |-> name, bti |-> bti, readable |-> readable]

ImportFiles ==
    { <<File(NameD, Pattern(4, 7), TRUE)>>,
      <<File(NameA, Pattern(32, 9), TRUE)>>,
      <<File(NameB, <<>>, FALSE), File(NameD, <<>>, TRUE)>> }

\* The selections of a list of n rows: one row, or all rows.
Selections(n) == {{i} : i \in 1 .. n} \cup (IF n >= 2 THEN {1 .. n} ELSE {})

\* list with the rows of a selection popped.
Popped(list, rows) ==
    LET kept[i \in 0 .. Len(list)] ==
            IF i = 0 THEN <<>>
            ELSE IF i \in rows THEN kept[i - 1] ELSE Append(kept[i - 1], list[i])
    IN kept[Len(list)]

\* written says whether the operation called save_particle_data_to_file.
ContObsOf(op, ok, loaded, out, prev, edits, packs, p) ==
    [op |-> op, ok |-> ok, loaded |-> loaded, out |-> out, prev |-> prev,
     edits |-> edits, packs |-> packs, p |-> p, written |-> FALSE]

ContEdited(op) ==
    ContObsOf(op, TRUE, TRUE, <<>>, JParticlesContainer_new, contObs.edits + 1,
              contObs.packs, contObs.p)

CanEdit == contObs.loaded /\ contObs.edits < MaxEdits

ContInit ==
    /\ cont = JParticlesContainer_new
    /\ contObs = ContObsOf("new", TRUE, FALSE, <<>>, JParticlesContainer_new, 0, 0,
                          ContParam(<<>>, <<>>, <<>>, ""))
    /\ NoFlagWord /\ NoShape /\ NoResource

\* JParticlesContainer.unpack of a file; the editor and the batch mode go
\* on only when it returned.
ContUnpack ==
    \E p \in ContainerInputs :
      \E r \in {JParticlesContainer_unpack(ContBytes(p), 0)} :
        /\ contObs.op = "new"
        /\ cont' = r.cont
        /\ contObs' = ContObsOf("unpack", r.ok, r.ok, <<>>, JParticlesContainer_new, 0, 0, p)
        /\ UNCHANGED notContVars

\* The loop of PgpEditor.add_or_import_textures over the picked files: a
\* file that cannot be read is left out, a file whose name is a key
\* replaces the BTI data of that texture, any other file is a new texture
\* at the end.
import_textures(textures, import_files) ==
    LET done[i \in 0 .. Len(import_files)] ==
            IF i = 0 THEN textures
            ELSE IF ~import_files[i].readable THEN done[i - 1]
            ELSE IF \E k \in 1 .. Len(done[i - 1]) :
                        done[i - 1][k].file_name = import_files[i].name
            THEN [k \in 1 .. Len(done[i - 1]) |->
                     IF done[i - 1][k].file_name = import_files[i].name
                     THEN [done[i - 1][k] EXCEPT !.bti_data = import_files[i].bti]
                     ELSE done[i - 1][k]]
            ELSE Append(done[i - 1],
                        [JPATexture_new EXCEPT !.file_name = import_files[i].name,
                                               !.bti_data = import_files[i].bti])
    IN done[Len(import_files)]

\* PgpEditor.add_or_import_textures.
add_or_import_textures ==
    \E import_files \in ImportFiles :
        /\ CanEdit
        /\ cont' = [cont EXCEPT !.textures = import_textures(@, import_files)]
        /\ contObs' = ContEdited("import")
        /\ UNCHANGED notContVars

\* PgpEditor.delete_textures: the selected rows are popped by their keys.
delete_textures ==
    \E delete_indexes \in Selections(Len(cont.textures)) :
        /\ CanEdit
        /\ cont' = [cont EXCEPT !.textures = Popped(@, delete_indexes)]
        /\ contObs' = ContEdited("delete textures")
        /\ UNCHANGED notContVars

\* PgpEditor.add_particle: a new JPAResource named "NewParticle" +
\* str(new_index) is appended, new_index being the number of rows of the
\* particle list.
add_particle ==
    /\ CanEdit
    /\ cont' = [cont EXCEPT !.particles =
                   Append(@, [JPAResource_new EXCEPT
                                  !.name = <<"NewParticle", Len(cont.particles)>>])]
    /\ contObs' = ContEdited("add particle")
    /\ UNCHANGED notContVars

\* PgpEditor.delete_particles.
delete_particles ==
    \E delete_indexes \in Selections(Len(cont.particles)) :
        /\ CanEdit
        /\ cont' = [cont EXCEPT !.particles = Popped(@, delete_indexes)]
        /\ contObs' = ContEdited("delete particles")
        /\ UNCHANGED notContVars

\* PgpEditor.clone_particles: deep copies of the selected rows, in the
\* order of the rows, go to the end.
clone_particles ==
    \E clone_indexes \in Selections(Len(cont.particles)) :
        /\ CanEdit
        /\ cont' = [cont EXCEPT !.particles =
                       @ \o Popped(@, (1 .. Len(@)) \ clone_indexes)]
        /\ contObs' = ContEdited("clone particles")
        /\ UNCHANGED notContVars

\* The text typed into the name field of a particle: the name add_particle
\* gives to the first particle of an empty list.
ParticleNames == {<<"NewParticle", 0>>}

\* PgpEditor.set_particle_name: the particle of the selected row takes the
\* text of the name field.
set_particle_name ==
    \E row \in 1 .. Len(cont.particles), text \in ParticleNames :
        /\ CanEdit
        /\ cont' = [cont EXCEPT !.particles[row].name = text]
        /\ contObs' = ContEdited("set particle name")
        /\ UNCHANGED notContVars

\* log_error of contains_errors: the message is appended unless the log
\* holds 10; log is [len, more_than_10].
log_error(log) ==
    IF log.len = 10 THEN [log EXCEPT !.more_than_10 = TRUE]
    ELSE [log EXCEPT !.len = log.len + 1]

\* contains_errors with the check for duplicate particle names left out.
contains_errors_textures(c) ==
    \E i \in 1 .. Len(c.particles) :
        \E j \in 1 .. Len(c.particles[i].texture_names) :
            c.particles[i].texture_names[j] \notin {keys(c.textures)[k] :
                                                       k \in 1 .. Len(c.textures)}

\* PgpEditor.contains_errors: the particles in order; a name that is in
\* particle_names already is logged, then every texture name that is no
\* key of the texture map, until log_error answers more_than_10 (which
\* ends the loop it is called in); errors were found when the log is not
\* empty.
contains_errors(c) ==
    LET is_key(name) == \E k \in 1 .. Len(c.textures) : keys(c.textures)[k] = name
        missing(log, i, j) ==
            \* the inner loop from texture name j on
            LET names == c.particles[i].texture_names
                walk[k \in j - 1 .. Len(names)] ==
                    IF k = j - 1 THEN [log |-> log, stop |-> FALSE]
                    ELSE IF walk[k - 1].stop THEN walk[k - 1]
                    ELSE IF is_key(names[k]) THEN walk[k - 1]
                    ELSE [log |-> log_error(walk[k - 1].log),
                          stop |-> log_error(walk[k - 1].log).more_than_10]
            IN walk[Len(names)].log
        outer[i \in 0 .. Len(c.particles)] ==
            IF i = 0
            THEN [log |-> [len |-> 0, more_than_10 |-> FALSE],
                  particle_names |-> <<>>, stop |-> FALSE]
            ELSE IF outer[i - 1].stop THEN outer[i - 1]
            ELSE LET st == outer[i - 1]
                     particle_name == c.particles[i].name
                     dup == \E k \in 1 .. Len(st.particle_names) :
                                st.particle_names[k] = particle_name
                     log1 == IF dup THEN log_error(st.log) ELSE st.log
                 IN IF dup /\ log1.more_than_10
                    THEN [st EXCEPT !.log = log1, !.stop = TRUE]
                    ELSE [log |-> missing(log1, i, 1),
                          particle_names |-> Append(st.particle_names, particle_name),
                          stop |-> FALSE]
    IN outer[Len(c.particles)].log.len # 0

\* PgpEditor.save_particle_data and save_as_particle_data, on particle data
\* that was loaded: nothing happens when contains_errors answers True or
\* the file dialog gives no name; otherwise save_particle_data_to_file
\* packs the container for the archive.  save_particle_data asks for a
\* name only when there is none, and a loaded editor has one.
save(op, particle_file_name) ==
    \E errors \in {contains_errors(cont)} :
    \E r \in {IF errors \/ particle_file_name = <<>>
              THEN [ok |-> TRUE, bytes |-> <<>>, cont |-> cont]
              ELSE JParticlesContainer_pack(cont)} :
        /\ contObs.loaded
        /\ cont' = r.cont
        /\ contObs' = [ContObsOf(op, r.ok, TRUE, r.bytes, cont, contObs.edits,
                                 contObs.packs, contObs.p)
                          EXCEPT !.written = ~errors /\ particle_file_name # <<>>]
        /\ UNCHANGED notContVars

save_particle_data == save("save", <<"Effect.arc">>)

save_as_particle_data ==
    \E particle_file_name \in {<<>>, <<"Other.arc">>} :
        save("save as", particle_file_name)

\* JParticlesContainer.pack, on a container whose unpack returned.  prev
\* is the container the call found.
ContPack ==
    \E r \in {JParticlesContainer_pack(cont)} :
        /\ contObs.loaded
        /\ cont' = r.cont
        /\ contObs' = ContObsOf("pack", r.ok, TRUE, r.bytes, cont, contObs.edits,
                                Min(contObs.packs + 1, 2), contObs.p)
        /\ UNCHANGED notContVars

ContNext ==
    \/ ContUnpack
    \/ add_or_import_textures
    \/ delete_textures
    \/ add_particle
    \/ delete_particles
    \/ clone_particles
    \/ ContPack

SpecContainer == ContInit /\ [][ContNext]_vars

\* The editor from Open to Save: the particle data of a file is edited in
\* the particle and texture lists and saved.
SaveNext ==
    \/ ContUnpack
    \/ add_or_import_textures
    \/ delete_textures
    \/ add_particle
    \/ delete_particles
    \/ clone_particles
    \/ set_particle_name
    \/ save_particle_data
    \/ save_as_particle_data

SpecSave == ContInit /\ [][SaveNext]_vars

(***************************************************************************)
(* Claims about the flag codec.                                            *)
(***************************************************************************)
\* The bits of a word outside the field of a descriptor.
OutsideField(val, flag) ==
    BigAnd(val, BigNot(BigShl(BigOf(flag.mask), flag.right_shift)))

\* C2: immediately after set_val_flag(D, v), whatever writes came before,
\* get_val_flag(D) returns (v & D.mask) coerced to D's type.
C2_ReadAfterWrite ==
    flagObs.op = "set" =>
        get_val_flag(word.val, flagObs.flag)
            = Coerce(flagObs.flag.flag_type, BitAnd(flagObs.v, flagObs.flag.mask))

\* C3: set_val_flag(D, v) leaves every bit outside D.mask << D.right_shift,
\* and so the value read for every other descriptor, as it was.
C3_WriteFrame ==
    flagObs.op = "set" =>
        /\ OutsideField(word.val, flagObs.flag) = OutsideField(flagObs.before, flagObs.flag)
        /\ \A g \in FlagsOf(word.kind) \ {flagObs.flag} :
               get_val_flag(word.val, g) = get_val_flag(flagObs.before, g)

\* C4, as claimed: set_val_flag(D, get_val_flag(D)) completes and leaves
\* the word unchanged, for every word and descriptor.
C4_RewriteCompletes ==
    flagObs.op = "rewrite" => flagObs.ok /\ word.val = flagObs.before

\* Whether the bits of a descriptor in a word are a value of its type.
HasMember(val, flag) ==
    \/ flag.flag_type \in {"bool", "int"}
    \/ BigAnd(BigShr(val, flag.right_shift), BigOf(flag.mask)).lo
            \in EnumMembers(flag.flag_type)

\* C4, amended: for a word within the range of its width,
\* set_val_flag(D, get_val_flag(D)) leaves the word unchanged; it completes
\* when D's bits are a value of D's type (always for bool and int) and
\* otherwise get_val_flag raises before anything is written.
C4_RewriteInRange ==
    (flagObs.op = "rewrite" /\ InRange(word.kind, flagObs.before)) =>
        /\ word.val = flagObs.before
        /\ flagObs.ok <=> HasMember(flagObs.before, flagObs.flag)

\* C4's case: a completed rewrite of a non-zero field above bit 0.
C4_Witness ==
    /\ flagObs.op = "rewrite"
    /\ InRange(word.kind, flagObs.before)
    /\ flagObs.ok
    /\ flagObs.got # 0
    /\ flagObs.flag.right_shift > 0

(***************************************************************************)
(* Claims about the base shape.                                            *)
(***************************************************************************)
\* C5: when pack returned bytes, the scroll-animation bit was then switched
\* from 0 to 1 (nothing else was edited) and pack returned bytes again, the
\* second output is 0x28 bytes longer than the first and everything after
\* the 0x28 new bytes is what followed the fixed fields before; switching
\* the bit from 1 to 0 removes 0x28 bytes in the same way.  The bit is
\* switched after the chunk was constructed, so its value at pack time
\* decides.
C5_ScrollToggle ==
    (shapeObs.op = "pack" /\ shapeObs.ok /\ shapeObs.prev.ok) =>
        LET out == shapeObs.out
            prev == shapeObs.prev.bytes
            fixed == 8 + Len(JPAChunk_pack(JPABaseShape_auto_chunks, shape.vals).bytes)
        IN /\ shapeObs.pending = "scroll01" =>
                /\ Len(out) = Len(prev) + 40
                /\ Slice(out, fixed, Len(out)) = Slice(prev, fixed - 40, Len(prev))
           /\ shapeObs.pending = "scroll10" =>
                /\ Len(out) = Len(prev) - 40
                /\ Slice(out, fixed, Len(out)) = Slice(prev, fixed + 40, Len(prev))

\* A pack after the bit went from 0 to 1 on a shape that carries extra data.
C5_Witness ==
    /\ shapeObs.op = "pack" /\ shapeObs.ok /\ shapeObs.prev.ok
    /\ shapeObs.pending = "scroll01"
    /\ Len(shapeObs.out) = Len(shapeObs.prev.bytes) + 40
    /\ Len(shapeObs.out) > 92
    /\ IsEnableTexScrollAnim(shape.vals)

\* A color keyframe as a 6-byte record: the frame number, then the color.
Record6(frame) == <<frame[1] \div 256, frame[1] % 256>> \o frame[2]

\* C6: when the three animations are enabled, the bytes pack emits after
\* the fixed header (0x34 bytes, 0x5C with the scroll floats) are the
\* texture indices, the primary keyframes and the environment keyframes,
\* each zero-padded to a multiple of 4; with N, M and K entries that is
\* align4(N) + align4(6 M) + align4(6 K) bytes.
C6_ExtraRegion ==
    (/\ shapeObs.op = "pack" /\ shapeObs.ok
     /\ IsEnableTexAnim(shape.vals)
     /\ IsPrimaryColorAnimEnabled(shape.vals)
     /\ IsEnvironmentColorAnimEnabled(shape.vals)) =>
        LET start == 52 + (IF IsEnableTexScrollAnim(shape.vals) THEN 40 ELSE 0)
            region == Slice(shapeObs.out, start, Len(shapeObs.out))
            N == Len(shape.texture_index_anim_data)
            M == Len(shape.primary_color_data)
            K == Len(shape.environment_color_data)
            up4(n) == n + Len(align4(Zeros(n)))
        IN /\ Len(region) = up4(N) + up4(6 * M) + up4(6 * K)
           /\ region =
                 Pad4(shape.texture_index_anim_data)
                 \o Pad4(Concat([i \in 1 .. M |-> Record6(shape.primary_color_data[i])]))
                 \o Pad4(Concat([i \in 1 .. K |-> Record6(shape.environment_color_data[i])]))

\* C7: in the bytes pack returns, the offset at chunk bytes 0xC-0xE is the
\* position in the chunk where the primary keyframes start and the one at
\* 0xE-0x10 the position where the environment keyframes start (for each
\* array that is enabled), and the bytes at 0x1F, 0x22 and 0x23 are the
\* numbers of texture indices, primary and environment keyframes emitted.
C7_OffsetsAndCounts ==
    (shapeObs.op = "pack" /\ shapeObs.ok) =>
        LET out == shapeObs.out
            texOn == IsEnableTexAnim(shape.vals)
            priOn == IsPrimaryColorAnimEnabled(shape.vals)
            envOn == IsEnvironmentColorAnimEnabled(shape.vals)
            fixed == 8 + Len(JPAChunk_pack(JPABaseShape_auto_chunks, shape.vals).bytes)
            texLen == IF texOn THEN Len(Pad4(shape.texture_index_anim_data)) ELSE 0
            priLen == IF priOn
                      THEN Len(Pad4(ColorFrames_pack(shape.primary_color_data).bytes))
                      ELSE 0
        IN /\ priOn => get_u16(out, 12) = fixed + texLen
           /\ envOn => get_u16(out, 14) = fixed + texLen + priLen
           /\ get_u8(out, 31) = (IF texOn THEN Len(shape.texture_index_anim_data) ELSE 0)
           /\ get_u8(out, 34) = (IF priOn THEN Len(shape.primary_color_data) ELSE 0)
           /\ get_u8(out, 35) = (IF envOn THEN Len(shape.environment_color_data) ELSE 0)

(***************************************************************************)
(* Claims about resources.                                                 *)
(***************************************************************************)
\* Two byte sequences that differ at most by zero bytes that bring the
\* shorter one to the next multiple of 4.
SameUpToPadding(a, b) ==
    LET n == Min(Len(a), Len(b))
        long == IF Len(a) > Len(b) THEN a ELSE b
    IN /\ Slice(a, 0, n) = Slice(b, 0, n)
       /\ Len(long) - n < 4
       /\ \A i \in n + 1 .. Len(long) : long[i] = 0

\* C1, as stated: whenever JPAResource.unpack has succeeded on a byte
\* sequence, pack() on the decoded resource returns the bytes that were
\* consumed, up to trailing zero padding.
C1_RoundTrip ==
    (resObs.op = "pack" /\ resObs.p # NoParam) =>
        (resObs.ok /\ SameUpToPadding(resObs.out, resObs.consumed))

\* C1, amended: when unpack has succeeded on a byte sequence that is laid
\* out as pack lays a resource out, pack() on the decoded resource returns
\* exactly the bytes that were consumed.
C1_CanonicalRoundTrip ==
    (resObs.op = "pack" /\ resObs.p.canonical) =>
        (resObs.ok /\ resObs.out = resObs.consumed)

C1_Witness ==
    /\ resObs.op = "pack" /\ resObs.ok
    /\ resObs.p.canonical /\ resObs.p.label = "full"
    /\ Declared(resObs.p, "FLD1") = 2 /\ Declared(resObs.p, "KFA1") = 1
    /\ resObs.p.ntex = 3
    /\ Len(resObs.out) > 600
    /\ resObs.out = ResBytes(resObs.p)

\* C8: JPAResource.unpack fails whenever the header's field-block count
\* differs from the number of FLD1 sections among the declared sections or
\* the header's key-block count from the number of KFA1 sections; on
\* sections that all decode it succeeds exactly when both counts agree.
C8_CountIntegrity ==
    resObs.op = "unpack" =>
        LET p == resObs.p
            agree == /\ p.nfld = Declared(p, "FLD1")
                     /\ p.nkey = Declared(p, "KFA1")
        IN /\ ~agree => ~resObs.ok
           /\ (p.label = "counts" /\ agree) => resObs.ok

C8_Witness ==
    /\ resObs.op = "unpack" /\ ~resObs.ok
    /\ resObs.p.label = "counts"
    /\ resObs.p.nfld = 2 /\ Declared(resObs.p, "FLD1") = 1
    /\ resObs.p.nkey = Declared(resObs.p, "KFA1")

(***************************************************************************)
(* Claims about the container.  The texture-ID tables are read back from   *)
(* the bytes pack returned, by walking the size fields of the file.        *)
(***************************************************************************)
\* The offset behind n sections that start at offset.
RECURSIVE SkipSections(_, _, _)
SkipSections(out, offset, n) ==
    IF n = 0 THEN offset
    ELSE SkipSections(out, offset + get_s32(out, offset + 4), n - 1)

\* The resource written at offset: the texture count of its header, and the
\* tag, the 16-bit slots and the end of its last section.
WrittenAt(out, offset) ==
    LET tdb == SkipSections(out, offset + 8, get_s16(out, offset + 2) - 1)
        size == get_s32(out, tdb + 4)
    IN [count |-> get_u8(out, offset + 6),
        tag |-> Slice(out, tdb, tdb + 4),
        slots |-> [j \in 1 .. (size - 8) \div 2 |-> get_s16(out, tdb + 8 + 2 * (j - 1))],
        end |-> tdb + size]

\* The offset of the i-th resource of a file.
RECURSIVE WrittenOffset(_, _)
WrittenOffset(out, i) ==
    IF i = 1 THEN 16 ELSE WrittenAt(out, WrittenOffset(out, i - 1)).end

\* The i-th resource of the file the last pack returned.
Written(i) == WrittenAt(contObs.out, WrittenOffset(contObs.out, i))

\* The file name of the texture block with a 0-based index in a file.
RECURSIVE WrittenTextureOffset(_, _)
WrittenTextureOffset(out, id) ==
    IF id = 0 THEN get_u32(out, 12).lo
    ELSE WrittenTextureOffset(out, id - 1)
         + get_s32(out, WrittenTextureOffset(out, id - 1) + 4)

WrittenTextureName(out, id) ==
    read_fixed_string(out, WrittenTextureOffset(out, id) + 12, 20)

\* The texture names of the i-th resource that were keys of the texture map
\* when pack was called, in the order of texture_names.
IsKey(name) == \E k \in 1 .. Len(contObs.prev.textures) :
                   contObs.prev.textures[k].file_name = name

Resolvable(i) == SelectSeq(contObs.prev.particles[i].texture_names, IsKey)

\* The 0-based place of a key in the key order of the texture map.
KeyIndex(name) ==
    (CHOOSE k \in 1 .. Len(contObs.prev.textures) :
         contObs.prev.textures[k].file_name = name) - 1

\* C9: pack fails only when the chunks of a resource cannot be encoded,
\* never because of a texture name that is no key; when it returns, the
\* last section of every resource is a TDB1 section that holds the indices
\* of the names that are keys, in the order of texture_names, zero-padded
\* to 4 bytes, and the header's texture count is the number of indices.
C9_TextureTable ==
    contObs.op = "pack" =>
        /\ contObs.ok <=> \A i \in 1 .. Len(contObs.prev.particles) :
                              JPAResource_pack(contObs.prev.particles[i]).ok
        /\ contObs.ok =>
             \A i \in 1 .. Len(contObs.prev.particles) :
                 LET n == Len(Resolvable(i)) IN
                 /\ Written(i).tag = Magic("TDB1")
                 /\ Written(i).count = n
                 /\ Written(i).slots =
                        [j \in 1 .. n |-> KeyIndex(Resolvable(i)[j])]
                        \o (IF n % 2 = 1 THEN <<0>> ELSE <<>>)

\* C9's case: pack returned a file in which a resource has a table with
\* indices, and fewer of them than it has texture names.
C9_Witness ==
    /\ contObs.op = "pack"
    /\ contObs.ok
    /\ \E i \in 1 .. Len(contObs.prev.particles) :
           /\ Written(i).count > 0
           /\ Written(i).count < Len(contObs.prev.particles[i].texture_names)

\* C10: whatever textures were imported and deleted, and whatever indices
\* the resources held from an earlier unpack or pack, the file pack returns
\* has for every resolvable name of a resource, in order, the index of the
\* texture block in that file with that name, and nothing else; the
\* resource holds these indices afterwards.
C10_CurrentIndex ==
    (contObs.op = "pack" /\ contObs.ok) =>
        \A i \in 1 .. Len(contObs.prev.particles) :
            /\ Written(i).count = Len(Resolvable(i))
            /\ \A j \in 1 .. Len(Resolvable(i)) :
                   /\ Written(i).slots[j] \in 0 .. Len(cont.textures) - 1
                   /\ WrittenTextureName(contObs.out, Written(i).slots[j])
                          = Resolvable(i)[j]
            /\ cont.particles[i].texture_ids = SubSeq(Written(i).slots, 1, Written(i).count)

\* C10's case: after an earlier pack and an edit of the texture map, pack
\* wrote for a resource indices that are not the ones it held.
C10_Witness ==
    /\ contObs.op = "pack"
    /\ contObs.ok
    /\ contObs.packs = 2
    /\ contObs.edits > 0
    /\ Len(contObs.prev.textures) > 0
    /\ \E i \in 1 .. Len(contObs.prev.particles) :
           /\ cont.particles[i].texture_ids # <<>>
           /\ cont.particles[i].texture_ids # contObs.prev.particles[i].texture_ids

\* The tags JPAResource.unpack knows.
KnownTags == {"BEM1", "FLD1", "KFA1", "BSP1", "ESP1", "SSP1", "ETX1", "TDB1"}

\* Whether the sections a resource of a file declares hold another tag.
HasUnknownTag(r) ==
    \E j \in 1 .. Min(r.nsec, Len(r.secs)) : r.secs[j].tag \notin KnownTags

\* The resources of a file in front of the first one with an unknown tag.
BeforeUnknownTag(p) ==
    {i \in 1 .. Len(p.particles) :
        \A k \in 1 .. i : ~HasUnknownTag(p.particles[k])}

\* C11: unpack of a file in which a resource has a section with an unknown
\* tag raises; the container then holds no resource but complete ones
\* decoded in front of that resource, each with the fields and the texture
\* names its own bytes give, and it is never packed or edited.
C11_UnknownTag ==
    (contObs.op = "unpack" /\ \E i \in 1 .. Len(contObs.p.particles) :
                                 HasUnknownTag(contObs.p.particles[i])) =>
        /\ ~contObs.ok
        /\ ~contObs.loaded
        /\ DOMAIN cont.particles \subseteq BeforeUnknownTag(contObs.p)
        /\ \A i \in DOMAIN cont.particles :
               LET r == JPAResource_unpack(ResBytes(contObs.p.particles[i]), 0)
               IN /\ r.ok
                  /\ [cont.particles[i] EXCEPT !.texture_names = <<>>] = r.res

\* C11's case: the unknown tag is in the second of three resources, behind
\* a section that was decoded, and the first resource is in the list.
C11_Witness ==
    /\ contObs.op = "unpack"
    /\ ~contObs.ok
    /\ Len(contObs.p.particles) = 3
    /\ HasUnknownTag(contObs.p.particles[2])
    /\ contObs.p.particles[2].secs[1].tag = "BEM1"
    /\ Len(cont.particles) = 1

(***************************************************************************)
(* Claims about the chunks of a packed resource.                           *)
(***************************************************************************)
\* The chunk at an offset of a packed resource, as its own fields give it.
ChunkAt(out, offset) ==
    [tag |-> MagicAt(out, offset),
     size |-> get_s32(out, offset + 4),
     end |-> offset + get_s32(out, offset + 4)]

\* The offset of the k-th chunk when every size field in front of it is
\* the number of bytes of its chunk.
RECURSIVE ChunkOffset(_, _)
ChunkOffset(out, k) ==
    IF k = 1 THEN 8 ELSE ChunkAt(out, ChunkOffset(out, k - 1)).end

\* The tags of the chunks JPAResource.pack emits for a resource, in order.
TagsOf(r) ==
    [i \in 1 .. Len(r.dynamics_block) |-> "BEM1"]
    \o [i \in 1 .. Len(r.field_blocks) |-> "FLD1"]
    \o [i \in 1 .. Len(r.key_blocks) |-> "KFA1"]
    \o [i \in 1 .. Len(r.base_shape) |-> "BSP1"]
    \o [i \in 1 .. Len(r.extra_shape) |-> "ESP1"]
    \o [i \in 1 .. Len(r.child_shape) |-> "SSP1"]
    \o [i \in 1 .. Len(r.ex_tex_shape) |-> "ETX1"]
    \o <<"TDB1">>

\* C12: in the bytes JPAResource.pack returns, walking from the header by
\* the size fields finds the tag of every chunk of the resource, in order,
\* and ends at the end of the bytes; so every size field is the number of
\* bytes emitted for its chunk (8 and the padded body), and each is a
\* multiple of 4.
C12_ChunkSizes ==
    (resObs.op = "pack" /\ resObs.ok) =>
        LET out == resObs.out
            tags == TagsOf(res)
        IN /\ get_s16(out, 2) = Len(tags)
           /\ \A k \in 1 .. Len(tags) :
                  /\ CanRead(out, ChunkOffset(out, k), 8)
                  /\ ChunkAt(out, ChunkOffset(out, k)).tag = tags[k]
                  /\ ChunkAt(out, ChunkOffset(out, k)).size % 4 = 0
                  /\ ChunkAt(out, ChunkOffset(out, k)).size >= 8
           /\ ChunkAt(out, ChunkOffset(out, Len(tags))).end = Len(out)

\* C12's case: a packed resource with a key block, a base shape whose
\* arrays need padding (one texture index, one and two color frames) and
\* an odd number of texture ids.
C12_Witness ==
    /\ resObs.op = "pack"
    /\ resObs.ok
    /\ Len(res.key_blocks) = 2
    /\ Len(res.field_blocks) = 1
    /\ Len(res.base_shape) = 1
    /\ Len(res.base_shape[1].texture_index_anim_data) = 1
    /\ Len(res.base_shape[1].primary_color_data) = 2
    /\ Len(res.texture_ids) = 3
    /\ Len(res.extra_shape) = 1

\* A resource with the stashed bytes of every chunk emptied: with an empty
\* stash identify_changes compares nothing, so pack then does no more than
\* encode the fields.
WithoutStash(r) ==
    LET emptied(list) == [i \in 1 .. Len(list) |-> [list[i] EXCEPT !.binary_data = <<>>]]
    IN [r EXCEPT !.dynamics_block = emptied(@), !.field_blocks = emptied(@),
                 !.key_blocks = emptied(@), !.base_shape = emptied(@),
                 !.extra_shape = emptied(@), !.child_shape = emptied(@),
                 !.ex_tex_shape = emptied(@)]

\* C13: whenever the fields of every chunk of a resource can be encoded,
\* pack returns these bytes, whatever the stashed bytes and the flag words
\* are; the change diagnostic never makes pack fail.
C13_DiagnosticNeverBlocks ==
    (resObs.op = "pack" /\ JPAResource_pack(WithoutStash(res)).ok) =>
        /\ resObs.ok
        /\ resObs.out = JPAResource_pack(WithoutStash(res)).bytes

\* C14: after every JPAResource.unpack that returns, the resource has a
\* dynamics block and a base shape.
C14_MandatoryChunks ==
    (resObs.op = "unpack" /\ resObs.ok) =>
        /\ Len(res.dynamics_block) = 1
        /\ Len(res.base_shape) = 1

(***************************************************************************)
(* Claims about the documents of pack_json and unpack_json.                *)
(***************************************************************************)
\* The chunks of a resource, by attribute, each with its tag.
ChunksOf(r) ==
    LET tagged(tag, list) == [i \in 1 .. Len(list) |-> [tag |-> tag, chunk |-> list[i]]]
    IN [dynamics_block |-> tagged("BEM1", r.dynamics_block),
        field_blocks |-> tagged("FLD1", r.field_blocks),
        key_blocks |-> tagged("KFA1", r.key_blocks),
        base_shape |-> tagged("BSP1", r.base_shape),
        extra_shape |-> tagged("ESP1", r.extra_shape),
        child_shape |-> tagged("SSP1", r.child_shape),
        ex_tex_shape |-> tagged("ETX1", r.ex_tex_shape)]

ChunkAttributes ==
    {"dynamics_block", "field_blocks", "key_blocks", "base_shape", "extra_shape",
     "child_shape", "ex_tex_shape"}

\* What pack() of a tagged chunk gives: whether it returns, and the bytes.
PackOutcome(t) ==
    LET r == CASE t.tag = "KFA1" -> JPAKeyBlock_pack(t.chunk)
               [] t.tag = "BSP1" -> JPABaseShape_pack(t.chunk)
               [] OTHER -> JPAStandardChunk_pack(t.tag, t.chunk)
    IN [ok |-> r.ok, bytes |-> r.bytes]

\* The bits of a flag word that some assigned flag covers.
RECURSIVE CoveredBits(_, _)
CoveredBits(flags, k) ==
    IF k > Len(flags) THEN BigOf(0)
    ELSE BigOr(BigShl(BigOf(flags[k].mask), flags[k].right_shift),
               CoveredBits(flags, k + 1))

\* A flag word of the chunk has a bit set that no assigned flag covers.
HasSpareBit(t) ==
    LET F == auto_chunks(t.tag)
    IN \E i \in 1 .. Len(F) :
          /\ IsFlagKind(F[i].kind)
          /\ BigAnd(t.chunk.vals[i], BigNot(CoveredBits(F[i].flags, 1))) # BigOf(0)

\* C15 as stated: after export and import of a decoded resource, every
\* chunk loaded from the document packs to the bytes the decoded chunk
\* packs to, whatever bits its flag words hold.
C15_JsonRoundTrip ==
    (resObs.op = "json" /\ resObs.ok) =>
        \A a \in ChunkAttributes :
          \A i \in 1 .. Len(ChunksOf(res)[a]) :
            PackOutcome(ChunksOf(resObs.imported[1])[a][i])
                = PackOutcome(ChunksOf(res)[a][i])

\* C15: for every chunk decoded from bytes whose flag words have no bit set
\* outside the assigned flags, when pack_json returns, unpack_json of the
\* document into a new chunk of the same type followed by pack has the
\* outcome of pack on the decoded chunk: the same bytes, conditional fields
\* and counted arrays included.
C15_JsonRoundTripOfFlags ==
    (resObs.op = "json" /\ resObs.ok) =>
        \A a \in ChunkAttributes :
          \A i \in 1 .. Len(ChunksOf(res)[a]) :
            ~HasSpareBit(ChunksOf(res)[a][i]) =>
                PackOutcome(ChunksOf(resObs.imported[1])[a][i])
                    = PackOutcome(ChunksOf(res)[a][i])

\* A full resource whose base shape has the scroll floats and every array
\* went through a document, and the base shape loaded from it packs to the
\* bytes of the section in the file.
C15_Witness ==
    /\ resObs.op = "json" /\ resObs.ok
    /\ resObs.p.label = "full"
    /\ Len(res.field_blocks) = 2 /\ Len(res.key_blocks) = 2
    /\ IsEnableTexScrollAnim(res.base_shape[1].vals)
    /\ Len(res.base_shape[1].primary_color_data) = 2
    /\ JPABaseShape_pack(resObs.imported[1].base_shape[1]).ok
    /\ JPABaseShape_pack(resObs.imported[1].base_shape[1]).bytes
           = BspBytes(ShapeParam(1, 1, TRUE, <<7>>, TRUE, <<1, 2>>, TRUE, <<3>>))
    /\ Len(resObs.imported[1].key_blocks[2].keyframes) = 2

\* pack_json and unpack_json of a tagged chunk, by its class.
PackJson(t) ==
    CASE t.tag = "KFA1" -> JPAKeyBlock_pack_json(t.chunk)
      [] t.tag = "BSP1" -> JPABaseShape_pack_json(t.chunk)
      [] OTHER -> JPAStandardChunk_pack_json(t.tag, t.chunk)

UnpackJson(tag, entry) ==
    LET r == CASE tag = "KFA1" -> JPAKeyBlock_unpack_json(entry)
               [] tag = "BSP1" ->
                    [ok |-> JPABaseShape_unpack_json(entry).ok,
                     chunk |-> JPABaseShape_unpack_json(entry).shape]
               [] OTHER -> JPAStandardChunk_unpack_json(tag, entry)
    IN [tag |-> tag, chunk |-> r.chunk]

\* The values BinaryDataDONOTEDIT is given: no bytes, and as many bytes as
\* the chunk stashed, all zero or all 0xFF.
Stashes(t) ==
    {<<>>} \cup {[i \in 1 .. Len(t.chunk.binary_data) |-> b] : b \in {0, 255}}

\* C16: for a chunk loaded by unpack_json, pack() has the same outcome (the
\* same bytes, or a failure) whatever value the document gave to
\* BinaryDataDONOTEDIT, all else in the document being equal.
C16_StashIgnored ==
    (resObs.op = "json" /\ resObs.ok) =>
        \A a \in ChunkAttributes :
          \A i \in 1 .. Len(ChunksOf(res)[a]) :
            \A stash \in Stashes(ChunksOf(res)[a][i]) :
              LET t == ChunksOf(res)[a][i]
                  entry == obj_set(PackJson(t).obj, "BinaryDataDONOTEDIT", hex(stash))
              IN PackOutcome(UnpackJson(t.tag, entry))
                     = PackOutcome(ChunksOf(resObs.imported[1])[a][i])

(***************************************************************************)
(* Claims about the container file.                                        *)
(***************************************************************************)
\* C17: JParticlesContainer.unpack on a buffer whose first 8 bytes are not
\* "JPAC2-10" raises, and the container holds no texture and no resource
\* after the call.
C17_BadMagic ==
    (contObs.op = "unpack" /\ Slice(ContBytes(contObs.p), 0, 8) # JPAC2_10) =>
        /\ ~contObs.ok
        /\ cont.particles = <<>>
        /\ cont.textures = <<>>

\* A file with the magic "JPAC1-00" was refused, although what follows the
\* magic decodes to a resource and a texture.
C17_Witness ==
    /\ contObs.op = "unpack" /\ ~contObs.ok
    /\ contObs.p.label = "magic"
    /\ Slice(ContBytes(contObs.p), 0, 8) = <<74, 80, 65, 67, 49, 45, 48, 48>>
    /\ cont = JParticlesContainer_new
    /\ LET r == JParticlesContainer_unpack(
                    JPAC2_10 \o Slice(ContBytes(contObs.p), 8,
                                      Len(ContBytes(contObs.p))), 0)
       IN r.ok /\ Len(r.cont.particles) = 1 /\ Len(r.cont.textures) = 1

\* The tag of a texture block, 0x54455831.
TEX1 == <<84, 69, 88, 49>>

\* Where the resources of a file end: behind the last of the n resources
\* the header counts, or behind the header.
ResourcesEnd(out) == WrittenOffset(out, get_u16(out, 8) + 1)

\* The position of the first texture block of a file: the first TEX1 tag at
\* or behind the end of the resources, or the end of the file.
FirstTexture(out) ==
    LET at == {q \in ResourcesEnd(out) .. Len(out) - 4 : Slice(out, q, q + 4) = TEX1}
    IN IF at = {} THEN Len(out) ELSE CHOOSE q \in at : \A x \in at : q <= x

\* The position of the k-th texture block (k = 1 for the first), each block
\* lying behind the one before it.
RECURSIVE TextureAt(_, _)
TextureAt(out, k) ==
    IF k = 1 THEN FirstTexture(out)
    ELSE TextureAt(out, k - 1) + get_s32(out, TextureAt(out, k - 1) + 4)

\* C18: in the file JParticlesContainer.pack returns, the header's offset of
\* the textures is the position of the first texture block, a multiple of 32
\* at or behind the end of the last resource (fewer than 32 zero bytes
\* lie between); every texture block has a size that is a multiple of 32;
\* the blocks hold the textures of the map in the order of its keys and
\* reach the end of the file; the header's two counts are the numbers of
\* resources and textures written.
C18_Layout ==
    (contObs.op = "pack" /\ contObs.ok) =>
        LET out == contObs.out
            textures == contObs.prev.textures
            off == get_u32(out, 12)
        IN /\ Slice(out, 0, 8) = JPAC2_10
           /\ get_u16(out, 8) = Len(contObs.prev.particles)
           /\ get_u16(out, 10) = Len(textures)
           /\ off.hi = 0 /\ off.lo = FirstTexture(out)
           /\ off.lo % 32 = 0
           /\ off.lo >= ResourcesEnd(out) /\ off.lo - ResourcesEnd(out) < 32
           /\ Slice(out, ResourcesEnd(out), off.lo) = Zeros(off.lo - ResourcesEnd(out))
           /\ \A k \in 1 .. Len(textures) :
                 LET at == TextureAt(out, k)
                     size == get_s32(out, at + 4)
                     bti == textures[k].bti_data
                 IN /\ Slice(out, at, at + 4) = TEX1
                    /\ size % 32 = 0
                    /\ size >= 32 + Len(bti) /\ size < 64 + Len(bti)
                    /\ Slice(out, at + 12, at + 32)
                           = pack_fixed_string(textures[k].file_name, 20)
                    /\ Slice(out, at + 32, at + 32 + Len(bti)) = bti
           /\ TextureAt(out, Len(textures) + 1) = Len(out)

\* A file with two resources and at least two textures in which padding
\* lies between the last resource and the first texture, and in which a
\* texture of 4 bytes of BTI data takes a block of 64 bytes.
C18_Witness ==
    /\ contObs.op = "pack" /\ contObs.ok
    /\ Len(contObs.prev.particles) = 2
    /\ Len(contObs.prev.textures) >= 2
    /\ get_u32(contObs.out, 12).lo > ResourcesEnd(contObs.out)
    /\ \E k \in 1 .. Len(contObs.prev.textures) :
           /\ Len(contObs.prev.textures[k].bti_data) = 4
           /\ get_s32(contObs.out, TextureAt(contObs.out, k) + 4) = 64

(***************************************************************************)
(* Claims about saving in the editor.                                      *)
(***************************************************************************)
\* Some particle of the container names a texture that is no key of the
\* texture map, or two particles have the same name.
HasErrors(c) ==
    \/ \E i \in 1 .. Len(c.particles) :
         \E j \in 1 .. Len(c.particles[i].texture_names) :
           \A k \in 1 .. Len(c.textures) :
               c.textures[k].file_name # c.particles[i].texture_names[j]
    \/ \E i, j \in 1 .. Len(c.particles) :
         i # j /\ c.particles[i].name = c.particles[j].name

\* C19: Save and Save As on particle data in which a particle names a
\* texture absent from the texture map, or two particles have the same
\* name, return without calling save_particle_data_to_file: nothing is
\* packed and the particle data stays as it was.
C19_SaveBlocked ==
    (contObs.op \in {"save", "save as"} /\ HasErrors(contObs.prev)) =>
        /\ ~contObs.written
        /\ contObs.out = <<>>
        /\ cont = contObs.prev

\* Save As was refused for particle data whose particles have different
\* names and of which one names a texture that was deleted; the same data
\* would have been packed.
C19_Witness ==
    /\ contObs.op = "save as"
    /\ ~contObs.written
    /\ Len(cont.particles) >= 1
    /\ \A i, j \in 1 .. Len(cont.particles) :
           i # j => cont.particles[i].name # cont.particles[j].name
    /\ \E i \in 1 .. Len(cont.particles) :
         \E j \in 1 .. Len(cont.particles[i].texture_names) :
           \A k \in 1 .. Len(cont.textures) :
               cont.textures[k].file_name # cont.particles[i].texture_names[j]
    /\ JParticlesContainer_pack(cont).ok

(***************************************************************************)
(* Claims about the keyframes of a key block.                              *)
(***************************************************************************)
\* Whether the k-th chunk of the packed particle is the key block kb as the
\* claim describes it: a KFA1 chunk whose count byte is the number of
\* keyframes, with the 16 bytes of every keyframe behind the 4-byte header
\* and nothing behind the last one.
KeyBlockWritten(out, k, kb) ==
    LET offset == ChunkOffset(out, k)
        count == Len(kb.keyframes)
    IN /\ CanRead(out, offset, 12 + 16 * count)
       /\ ChunkAt(out, offset).tag = "KFA1"
       /\ At(out, offset + 9) = count
       /\ ChunkAt(out, offset).size - 8 = 4 + 16 * count
       /\ \A i \in 1 .. count :
              Slice(out, offset + 12 + 16 * (i - 1), offset + 12 + 16 * i)
                  = JPAChunk_pack(JPAKeyframe_auto_chunks, kb.keyframes[i]).bytes

KeyBlocksWritten ==
    /\ resObs.ok
    /\ \A k \in 1 .. Len(res.key_blocks) :
           KeyBlockWritten(resObs.out, k, res.key_blocks[k])

\* C20 as stated: after any additions and removals of keyframes, pack
\* writes for every key block a count byte equal to the number of its
\* keyframes and that many 16-byte records behind the 4-byte header, a body
\* of 4 + 16 * count bytes.
C20_KeyCount ==
    resObs.op = "pack" => KeyBlocksWritten

\* C20 within the range of the count byte: while no key block has more than
\* U8Max keyframes pack writes the count and the records as stated;
\* with more keyframes in a key block pack raises and nothing is written.
C20_KeyCountInRange ==
    resObs.op = "pack" =>
        IF \A k \in 1 .. Len(res.key_blocks) :
               Len(res.key_blocks[k].keyframes) <= U8Max
        THEN KeyBlocksWritten
        ELSE ~resObs.ok /\ resObs.out = <<>>

\* C20's case: a particle packed after a keyframe was added to one key
\* block and one removed from another, so that neither count is the one
\* that was read from the file.
C20_Witness ==
    /\ resObs.op = "pack"
    /\ resObs.ok
    /\ resObs.edits = 2
    /\ Len(res.key_blocks) = 2
    /\ Len(res.key_blocks[1].keyframes) = 2
    /\ Len(res.key_blocks[2].keyframes) = 1
    /\ res.key_blocks[1].keyframes[2] = DefaultVals(JPAKeyframe_auto_chunks)

(***************************************************************************)
(* Claims about the header and the section order of a packed resource.     *)
(***************************************************************************)
\* The tags of the sections found in packed bytes by walking from the
\* header through as many sections as the header declares.
SectionTags(out) ==
    [k \in 1 .. get_s16(out, 2) |-> ChunkAt(out, ChunkOffset(out, k)).tag]

\* The place of a tag in the order dynamics, fields, keyframes, base shape,
\* extra shape, child shape, indirect shape, texture-ID table.
SectionRank(tag) ==
    CASE tag = "BEM1" -> 1 [] tag = "FLD1" -> 2 [] tag = "KFA1" -> 3
      [] tag = "BSP1" -> 4 [] tag = "ESP1" -> 5 [] tag = "SSP1" -> 6
      [] tag = "ETX1" -> 7 [] tag = "TDB1" -> 8 [] OTHER -> 0

\* C21: in the bytes JPAResource.pack returns the section count of the
\* header is the number of sections that follow it up to the end of the
\* bytes, the last of them the TDB1 table; the field-block and key-block
\* counts are the numbers of FLD1 and KFA1 sections among them; the
\* sections are in the order dynamics, fields, keyframes, base shape, extra
\* shape, child shape, indirect shape, table; and JPAResource.unpack of the
\* bytes passes the count check and returns.
C21_HeaderCounts ==
    (resObs.op = "pack" /\ resObs.ok) =>
        LET out == resObs.out
            tags == SectionTags(out)
            n == Len(tags)
            back == JPAResource_unpack(out, 0)
        IN /\ n >= 1
           /\ ChunkAt(out, ChunkOffset(out, n)).end = Len(out)
           /\ tags[n] = "TDB1"
           /\ At(out, 4) = Cardinality({k \in 1 .. n : tags[k] = "FLD1"})
           /\ At(out, 5) = Cardinality({k \in 1 .. n : tags[k] = "KFA1"})
           /\ \A k \in 1 .. n - 1 :
                  /\ SectionRank(tags[k]) >= 1
                  /\ SectionRank(tags[k]) <= SectionRank(tags[k + 1])
                  /\ SectionRank(tags[k]) = SectionRank(tags[k + 1])
                         => tags[k] \in {"FLD1", "KFA1"}
           /\ back.ok
           /\ block_counts_agree(At(out, 5), At(out, 4), back.res)

\* C21's case: a packed resource with every kind of section, two field
\* blocks and one key block.
C21_Witness ==
    /\ resObs.op = "pack"
    /\ resObs.ok
    /\ SectionTags(resObs.out)
           = <<"BEM1", "FLD1", "FLD1", "KFA1", "BSP1", "ESP1", "SSP1", "ETX1", "TDB1">>

(***************************************************************************)
(* Claims about conditional fields.                                        *)
(***************************************************************************)
\* The conditional fields of a base shape, and the fields in front of them.
ConditionalFields ==
    {i \in 1 .. Len(JPABaseShape_auto_chunks) : JPABaseShape_auto_chunks[i].kind = "Cond"}

UnconditionalPrefix ==
    (CHOOSE i \in ConditionalFields : \A k \in ConditionalFields : i <= k) - 1

\* JPAChunk.unpack of the auto chunks 1 .. hi of a base shape holding vals,
\* from the body of a BSP1 chunk: [ok, vals, offset].
DecodeFields(vals, chunk, hi) ==
    JPAChunk_unpack_range(JPABaseShape_auto_chunks,
                          [ok |-> TRUE, vals |-> vals, offset |-> 8], 1, hi, chunk)

\* C22: while the flag bit that governs them is clear, the conditional
\* fields of a base shape that pack has just encoded have size 0 and emit
\* no bytes, so the fixed part of the body is the bytes of the fields in
\* front of them; decoding the chunk, into a new base shape or into the one
\* that holds the values, reads no byte for them and leaves each with the
\* value it had (the default in a new shape, the last value otherwise),
\* which is what get_val returns.
C22_AbsentField ==
    (shapeObs.op = "pack" /\ shapeObs.ok /\ ~IsEnableTexScrollAnim(shape.vals)) =>
        LET F == JPABaseShape_auto_chunks
            out == shapeObs.out
            new == DecodeFields(DefaultVals(F), out, Len(F))
            again == DecodeFields(shape.vals, out, Len(F))
        IN /\ new = DecodeFields(DefaultVals(F), out, UnconditionalPrefix)
           /\ again = DecodeFields(shape.vals, out, UnconditionalPrefix)
           /\ JPAChunk_pack(F, shape.vals)
                  = JPAChunk_pack_range(F, shape.vals, 1, UnconditionalPrefix)
           /\ \A i \in ConditionalFields :
                  /\ get_size(F, shape.vals, i) = 0
                  /\ Field_pack(F, shape.vals, i) = Packed(<<>>)
                  /\ new.vals[i] = F[i].default
                  /\ again.vals[i] = shape.vals[i]

\* C22's case: a base shape decoded with the scroll floats, whose scroll
\* bit was cleared afterwards, is packed: the conditional fields are absent
\* and hold the values read from the file.
C22_Witness ==
    /\ shapeObs.op = "pack"
    /\ shapeObs.ok
    /\ ~IsEnableTexScrollAnim(shape.vals)
    /\ \E i \in ConditionalFields :
           shape.vals[i] # JPABaseShape_auto_chunks[i].default
    /\ DecodeFields(shape.vals, shapeObs.out, Len(JPABaseShape_auto_chunks)).ok

(***************************************************************************)
(* Claims about the number of bytes a field encodes to.                    *)
(***************************************************************************)
\* pack() of a chunk's auto chunk i returns get_size() bytes.
EmitsItsSize(F, vals, i) ==
    /\ Field_pack(F, vals, i).ok
    /\ Len(Field_pack(F, vals, i).bytes) = get_size(F, vals, i)

\* C23: in every state of a base shape, as constructed, as decoded and as
\* edited, each of its fields encodes to as many bytes as its size says, so
\* the raw 4-byte fields encode to 4 bytes, and every color keyframe of its
\* two lists, also one just added, encodes to 6 bytes.
C23_EmitsSize ==
    /\ \A i \in 1 .. Len(JPABaseShape_auto_chunks) :
           EmitsItsSize(JPABaseShape_auto_chunks, shape.vals, i)
    /\ \A tree \in ColorTrees :
           \A k \in 1 .. Len(get_color_tree_data(shape, tree)) :
               LET frame == get_color_tree_data(shape, tree)[k]
               IN /\ \A i \in 1 .. 2 : EmitsItsSize(JPAColorFrame_auto_chunks, frame, i)
                  /\ Len(JPAChunk_pack(JPAColorFrame_auto_chunks, frame).bytes) = 6

(***************************************************************************)
(* Claims about a resource that was constructed and never decoded.         *)
(***************************************************************************)
\* C24: pack() of a JPAResource that was constructed and never unpacked
\* returns bytes, and JPAResource.unpack of those bytes returns.
C24_NewResourcePacks ==
    (resObs.op = "pack" /\ resObs.p = NoParam) =>
        /\ resObs.ok
        /\ JPAResource_unpack(resObs.out, 0).ok

(***************************************************************************)
(* Claims about one typed chunk.                                           *)
(***************************************************************************)
\* C25: when a chunk is decoded at an offset where its width extends past
\* the end of the buffer, the call fails and the chunk holds the value it
\* held before; and a raw 4-byte chunk that was decoded holds 4 bytes.
C25_TruncatedInput ==
    flagObs.op = "unpack" =>
        /\ ~CanRead(flagObs.buffer, flagObs.offset, WidthOf(word.kind)) =>
               (~flagObs.ok /\ word.val = flagObs.prev)
        /\ (word.kind = "Bytes4" /\ flagObs.ok) => Len(word.val) = 4

\* The range the setter of each integer chunk clamps to.
ClampLow(kind) == IF kind = "S8" THEN BigOf(-127) ELSE BigOf(0)

ClampHigh(kind) ==
    CASE kind = "U8" -> BigOf(U8Max)
      [] kind = "S8" -> BigOf(127)
      [] kind = "U16" -> BigOf(U16Max)
      [] kind = "U32" -> Big(U32Hi, U16Max)

Clamped(kind, val) == ~BigLt(val, ClampLow(kind)) /\ ~BigGt(val, ClampHigh(kind))

\* C27: a set_val call on an integer chunk whose value is inside the range
\* of its setter leaves a value inside that range: the argument when it is
\* inside the range, the nearest bound when it is not.
C27_SetValClamps ==
    (/\ flagObs.op = "set_val"
     /\ word.kind \in IntegerKinds
     /\ Clamped(word.kind, flagObs.prev)) =>
        /\ Clamped(word.kind, word.val)
        /\ word.val = IF BigLt(flagObs.new_val, ClampLow(word.kind))
                      THEN ClampLow(word.kind)
                      ELSE IF BigGt(flagObs.new_val, ClampHigh(word.kind))
                      THEN ClampHigh(word.kind)
                      ELSE flagObs.new_val

(***************************************************************************)
(* Claims about repeated texture names.                                    *)
(***************************************************************************)
\* The indices of the table of the i-th resource of the packed file.
WrittenIds(i) == SubSeq(Written(i).slots, 1, Written(i).count)

\* C26 as stated: in the file pack returns no index occurs twice in the
\* texture-ID table of a resource, whatever its texture_names are.
C26_DistinctIndices ==
    (contObs.op = "pack" /\ contObs.ok) =>
        \A i \in 1 .. Len(contObs.prev.particles) :
            \A j, k \in 1 .. Len(WrittenIds(i)) :
                WrittenIds(i)[j] = WrittenIds(i)[k] => j = k

\* C26 for the table the code writes: it has one index for every entry of
\* texture_names that is a key of the texture map, in order, so an index
\* occurs at two places exactly when the entries at these places are the
\* same name; for a list without a repeated name no index occurs twice.
C26_IndexPerEntry ==
    (contObs.op = "pack" /\ contObs.ok) =>
        \A i \in 1 .. Len(contObs.prev.particles) :
            /\ Len(WrittenIds(i)) = Len(Resolvable(i))
            /\ \A j, k \in 1 .. Len(Resolvable(i)) :
                   (WrittenIds(i)[j] = WrittenIds(i)[k])
                       <=> (Resolvable(i)[j] = Resolvable(i)[k])

\* C26's case: a resource whose texture_names hold a name twice, with
\* another name in between, was packed: the table has the same index at the
\* first and the third place.
C26_Witness ==
    /\ contObs.op = "pack"
    /\ contObs.ok
    /\ \E i \in 1 .. Len(contObs.prev.particles) :
           /\ Len(Resolvable(i)) = 3
           /\ Resolvable(i)[1] = Resolvable(i)[3]
           /\ Resolvable(i)[1] # Resolvable(i)[2]
           /\ WrittenIds(i)[1] = WrittenIds(i)[3]


\* The keyframes the key block kb holds are as many as its count byte says.
KeyCountHeld(kb) == Len(kb.keyframes) = kb.vals[2]

\* C28: whenever JPAKeyBlock.unpack returns, the key block holds as many
\* keyframes as the count byte that was just decoded, on a new key block
\* and on one that already holds keyframes from an earlier unpack or from
\* an edit.
C28_KeyframesMatchCount ==
    /\ (resObs.op = "unpack" /\ resObs.ok) =>
           \A k \in 1 .. Len(res.key_blocks) : KeyCountHeld(res.key_blocks[k])
    /\ (resObs.op = "unpack block" /\ resObs.ok) =>
           KeyCountHeld(res.key_blocks[resObs.block])

(***************************************************************************)
(* The particles of the editor as objects that refer to each other.  Every *)
(* list, chunk, keyframe and flag word is a cell of a heap and is held by  *)
(* its reference, the position of the cell; copy.deepcopy makes new cells, *)
(* an assignment or an append of an object stores its reference.  cont is  *)
(* [heap, particles, copied_particle] and contObs tells what the last      *)
(* operation did.                                                          *)
(***************************************************************************)
\* self.extra_shape = None: no object.
NoRef == 0

Cell(kind, obj, refs) == [kind |-> kind, obj |-> obj, refs |-> refs]

\* The position of the references a JPAResource holds.
RefNames ==
    <<"texture_names", "dynamics_block", "field_blocks", "key_blocks",
      "base_shape", "extra_shape", "child_shape", "ex_tex_shape">>

RefOf(heap, r, name) ==
    heap[r].refs[CHOOSE i \in 1 .. Len(RefNames) : RefNames[i] = name]

\* The cells of one chunk, the chunk last, when the cells before them are
\* base many.  A key block holds its keyframes in a list of its own; a base
\* shape holds its flag word, and its conditional fields hold it too.
ChunkCells(base, kind, chunk) ==
    IF kind = "KFA1"
    THEN LET n == Len(chunk.keyframes)
         IN [i \in 1 .. n |-> Cell("keyframe", chunk.keyframes[i], <<>>)]
            \o <<Cell("list", <<>>, [i \in 1 .. n |-> base + i]),
                 Cell("KFA1", [chunk EXCEPT !.keyframes = <<>>], <<base + n + 1>>)>>
    ELSE IF kind = "BSP1"
    THEN <<Cell("flags", chunk.vals[1], <<>>),
           Cell("BSP1", chunk, <<base + 1, base + 1>>)>>
    ELSE <<Cell("chunk", chunk, <<>>)>>

\* The cells of the chunks of one attribute of a JPAResource and the
\* reference the attribute holds: the chunk or None, or a list of chunks.
PartCells(base, part) ==
    LET acc[j \in 0 .. Len(part.items)] ==
            IF j = 0 THEN [cells |-> <<>>, roots |-> <<>>]
            ELSE With(acc[j - 1], LAMBDA a :
                 With(ChunkCells(base + Len(a.cells), part.kind, part.items[j]),
                      LAMBDA cs :
                          [cells |-> a.cells \o cs,
                           roots |-> Append(a.roots, base + Len(a.cells) + Len(cs))]))
    IN With(acc[Len(part.items)], LAMBDA a :
           IF part.list
           THEN [cells |-> Append(a.cells, Cell("list", <<>>, a.roots)),
                 root |-> base + Len(a.cells) + 1]
           ELSE [cells |-> a.cells,
                 root |-> IF a.roots = <<>> THEN NoRef ELSE a.roots[1]])

Part(kind, list, items) == [kind |-> kind, list |-> list, items |-> items]

\* The objects JPAResource.unpack and JParticlesContainer.unpack construct
\* for one particle, the JPAResource last.
ResourceCells(base, particle) ==
    LET parts == <<Part("chunk", FALSE, particle.dynamics_block),
                   Part("chunk", TRUE, particle.field_blocks),
                   Part("KFA1", TRUE, particle.key_blocks),
                   Part("BSP1", FALSE, particle.base_shape),
                   Part("chunk", FALSE, particle.extra_shape),
                   Part("chunk", FALSE, particle.child_shape),
                   Part("chunk", FALSE, particle.ex_tex_shape)>>
        acc[j \in 0 .. Len(parts)] ==
            IF j = 0
            THEN [cells |-> <<Cell("names", particle.texture_names, <<>>)>>,
                  roots |-> <<base + 1>>]
            ELSE With(acc[j - 1], LAMBDA a :
                 With(PartCells(base + Len(a.cells), parts[j]), LAMBDA p :
                      [cells |-> a.cells \o p.cells,
                       roots |-> Append(a.roots, p.root)]))
    IN With(acc[Len(parts)], LAMBDA a :
           Append(a.cells,
                  Cell("JPAResource",
                       [name |-> particle.name, index |-> particle.index,
                        total_size |-> particle.total_size,
                        texture_ids |-> particle.texture_ids],
                       a.roots)))

\* The heap and the list of particles after the particles of a container
\* were constructed one after the other.
ParticleCells(particles) ==
    LET acc[j \in 0 .. Len(particles)] ==
            IF j = 0 THEN [heap |-> <<>>, particles |-> <<>>]
            ELSE With(acc[j - 1], LAMBDA a :
                 With(ResourceCells(Len(a.heap), particles[j]), LAMBDA cs :
                      [heap |-> a.heap \o cs,
                       particles |-> Append(a.particles, Len(a.heap) + Len(cs))]))
    IN acc[Len(particles)]

\* The chunk a reference stands for, with the keyframes of its list and
\* the flag word of its flags object.
ChunkOf(heap, ref) ==
    LET c == heap[ref]
    IN IF c.kind = "KFA1"
       THEN [c.obj EXCEPT !.keyframes =
                [i \in 1 .. Len(heap[c.refs[1]].refs) |->
                    heap[heap[c.refs[1]].refs[i]].obj]]
       ELSE IF c.kind = "BSP1"
       THEN [c.obj EXCEPT !.vals[1] = heap[c.refs[1]].obj]
       ELSE c.obj

ChunkOrNone(heap, ref) == IF ref = NoRef THEN <<>> ELSE <<ChunkOf(heap, ref)>>

ChunkList(heap, ref) ==
    [i \in 1 .. Len(heap[ref].refs) |-> ChunkOf(heap, heap[ref].refs[i])]

\* The JPAResource a reference stands for.
ResourceOf(heap, r) ==
    [name |-> heap[r].obj.name,
     dynamics_block |-> ChunkOrNone(heap, RefOf(heap, r, "dynamics_block")),
     field_blocks |-> ChunkList(heap, RefOf(heap, r, "field_blocks")),
     key_blocks |-> ChunkList(heap, RefOf(heap, r, "key_blocks")),
     base_shape |-> ChunkOrNone(heap, RefOf(heap, r, "base_shape")),
     extra_shape |-> ChunkOrNone(heap, RefOf(heap, r, "extra_shape")),
     child_shape |-> ChunkOrNone(heap, RefOf(heap, r, "child_shape")),
     ex_tex_shape |-> ChunkOrNone(heap, RefOf(heap, r, "ex_tex_shape")),
     texture_ids |-> heap[r].obj.texture_ids,
     texture_names |-> heap[RefOf(heap, r, "texture_names")].obj,
     index |-> heap[r].obj.index,
     total_size |-> heap[r].obj.total_size]

\* The references an object holds, and the objects that can be reached
\* from a set of objects.
RefsOf(heap, r) == {heap[r].refs[i] : i \in 1 .. Len(heap[r].refs)} \ {NoRef}

RECURSIVE Reach(_, _, _)
Reach(heap, todo, seen) ==
    IF todo = {} THEN seen
    ELSE Reach(heap,
               UNION {RefsOf(heap, r) : r \in todo} \ (seen \cup todo),
               seen \cup todo)

Reachable(heap, root) == IF root = NoRef THEN {} ELSE Reach(heap, {root}, {})

\* copy.deepcopy(x): a new object for every object that can be reached from
\* x, holding the references of the new objects where the old object held
\* those of the old ones.  [heap, ref].
deepcopy_shared(heap, root) == [heap |-> heap, ref |-> root]

deepcopy(heap, root) ==
    LET old == Reachable(heap, root)
        Rank(x) == Cardinality({y \in old : y <= x})
        memo(x) == IF x = NoRef THEN NoRef ELSE Len(heap) + Rank(x)
        y == [k \in 1 .. Cardinality(old) |->
                 With(CHOOSE x \in old : Rank(x) = k, LAMBDA x :
                      [heap[x] EXCEPT !.refs = [i \in 1 .. Len(@) |-> memo(@[i])]])]
    IN [heap |-> heap \o y, ref |-> memo(root)]

\* x.<name> = deepcopy(other.<name>) for a chunk attribute at position k of
\* RefNames.
CopyChunk(heap, self, other, k) ==
    With(deepcopy(heap, heap[other].refs[k]), LAMBDA c :
         [c.heap EXCEPT ![self].refs[k] = c.ref])

\* for block in other.<name>: self.<name>.append(deepcopy(block)).
CopyBlocks(heap, self, other, k) ==
    LET blocks == heap[heap[other].refs[k]].refs
        acc[j \in 0 .. Len(blocks)] ==
            IF j = 0 THEN heap
            ELSE With(deepcopy(acc[j - 1], blocks[j]), LAMBDA c :
                      [c.heap EXCEPT ![heap[self].refs[k]].refs = Append(@, c.ref)])
    IN acc[Len(blocks)]

\* JPAResource.replace_with(other): the name is assigned, the three lists
\* of self are emptied where they are, the names of other are added to the
\* name list of self, and every chunk of other is copied with deepcopy.
\* The index, the size and the texture ids of self stay.
JPAResource_replace_with(heap, self, other) ==
    LET texture_names == heap[self].refs[1]
        cleared == [heap EXCEPT ![self].obj.name = heap[other].obj.name,
                                ![heap[self].refs[3]].refs = <<>>,
                                ![heap[self].refs[4]].refs = <<>>,
                                ![texture_names].obj = <<>>]
        named == [cleared EXCEPT ![texture_names].obj =
                                     @ \o cleared[cleared[other].refs[1]].obj]
    IN With(CopyChunk(named, self, other, 2), LAMBDA h2 :
       With(CopyBlocks(h2, self, other, 3), LAMBDA h3 :
       With(CopyBlocks(h3, self, other, 4), LAMBDA h4 :
       With(CopyChunk(h4, self, other, 5), LAMBDA h5 :
       With(CopyChunk(h5, self, other, 6), LAMBDA h6 :
       With(CopyChunk(h6, self, other, 7), LAMBDA h7 :
            CopyChunk(h7, self, other, 8)))))))

\* The bytes JParticlesContainer.pack writes for a particle: the texture
\* ids are those of its names in the texture table, then particle.pack().
PackedParticle(c, r) ==
    With(ResourceOf(c.heap, r), LAMBDA particle :
    With(JPAResource_pack([particle EXCEPT !.texture_ids =
                              particle_texture_ids(particle, c.texture_name_to_id)]),
         LAMBDA p : [ok |-> p.ok, bytes |-> p.bytes]))

\* The particles the editor holds: those of the list and the copied one.
Held(c) ==
    c.particles \o (IF c.copied_particle = NoRef THEN <<>> ELSE <<c.copied_particle>>)

\* The editor with the objects no held particle reaches dropped and the
\* others in the order of the particles that hold them: a reference tells
\* objects apart and nothing else, so the editor is the same one.
Collected(c) ==
    LET Sorted(S) == [k \in 1 .. Cardinality(S) |->
                         CHOOSE x \in S : Cardinality({y \in S : y <= x}) = k]
        Seen(list) == {list[k] : k \in 1 .. Len(list)}
        acc[j \in 0 .. Len(Held(c))] ==
            IF j = 0 THEN <<>>
            ELSE With(acc[j - 1], LAMBDA a :
                      a \o Sorted(Reachable(c.heap, Held(c)[j]) \ Seen(a)))
    IN With(acc[Len(Held(c))], LAMBDA order :
       LET new(x) == IF x = NoRef THEN NoRef
                     ELSE CHOOSE k \in 1 .. Len(order) : order[k] = x
       IN [c EXCEPT !.heap = [k \in 1 .. Len(order) |->
                                 [c.heap[order[k]] EXCEPT
                                     !.refs = [i \in 1 .. Len(@) |-> new(@[i])]]],
                    !.particles = [i \in 1 .. Len(@) |-> new(@[i])],
                    !.copied_particle = new(@)])

\* Files with two particles: one with a field block, a key block and a
\* base shape with texture scrolling, one with two key blocks and every
\* shape.
CopyInputs ==
    { ContParam(JPAC2_10, <<NameA, NameB>>,
                <<Canonical(3, <<BemSection(2, <<0, 0, 0>>)>>, 1, 1,
                            <<ShapeParam(1, 2, FALSE, <<>>, FALSE, <<>>, FALSE, <<>>)>>,
                            FALSE, <<1>>, "scroll"),
                  Canonical(4, <<BemSection(2, <<0, 0, 0>>)>>, 0, 2,
                            <<ShapeParam(0, 2, FALSE, <<>>, FALSE, <<>>, FALSE, <<>>)>>,
                            TRUE, <<0, 1>>, "shapes")>>, "two") }

\* MaxSteps: the copies, replacements and edits of a run.
MaxSteps == 3

\* target is the row of the particle the operation changed, 0 when it
\* changed none.
CopyObs(op, steps, target) == [op |-> op, steps |-> steps, target |-> target]

CopyInit ==
    /\ cont = [heap |-> <<>>, particles |-> <<>>, copied_particle |-> NoRef,
               texture_name_to_id |-> <<>>]
    /\ contObs = CopyObs("new", 0, 0)
    /\ NoFlagWord /\ NoShape /\ NoResource

\* JParticlesContainer.unpack: a JPAResource is constructed and unpacked
\* for every particle of the file.
Heap_unpack ==
    \E p \in CopyInputs :
      \E r \in {JParticlesContainer_unpack(ContBytes(p), 0)} :
        \E cells \in {ParticleCells(r.cont.particles)} :
          /\ contObs.op = "new"
          /\ r.ok
          /\ cont' = [heap |-> cells.heap, particles |-> cells.particles,
                      copied_particle |-> NoRef,
                      texture_name_to_id |-> keys(r.cont.textures)]
          /\ contObs' = CopyObs("unpack", 0, 0)
          /\ UNCHANGED notContVars

CanStep == contObs.op # "new" /\ contObs.steps < MaxSteps

Stepped(op, target) == CopyObs(op, contObs.steps + 1, target)

\* clone_particles: clone = copy.deepcopy(particles[clone_index]) and
\* particles.append(clone) for the selected rows in their order.
Heap_clone_particles ==
    \E clone_indexes \in {{i} : i \in 1 .. Len(cont.particles)} :
      LET acc[j \in 0 .. Len(cont.particles)] ==
              IF j = 0 THEN cont
              ELSE IF j \notin clone_indexes THEN acc[j - 1]
              ELSE With(deepcopy(acc[j - 1].heap, cont.particles[j]), LAMBDA clone :
                        [acc[j - 1] EXCEPT !.heap = clone.heap,
                                           !.particles = Append(@, clone.ref)])
      IN /\ CanStep
         /\ cont' = Collected(acc[Len(cont.particles)])
         /\ contObs' = Stepped("clone_particles", 0)
         /\ UNCHANGED notContVars

\* copy_particle: copied_particle = copy.deepcopy(particles[currentRow()]).
copy_particle ==
    \E row \in 1 .. Len(cont.particles) :
      \E c \in {deepcopy(cont.heap, cont.particles[row])} :
        /\ CanStep
        /\ cont' = Collected([cont EXCEPT !.heap = c.heap, !.copied_particle = c.ref])
        /\ contObs' = Stepped("copy_particle", 0)
        /\ UNCHANGED notContVars

\* replace_particle: current_particle.replace_with(copied_particle).
replace_particle ==
    \E row \in 1 .. Len(cont.particles) :
        /\ CanStep
        /\ cont.copied_particle # NoRef
        /\ cont' = Collected([cont EXCEPT !.heap =
                                  JPAResource_replace_with(@, cont.particles[row],
                                                           cont.copied_particle)])
        /\ contObs' = Stepped("replace_particle", row)
        /\ UNCHANGED notContVars

\* enable_texture_scroll_anim(val) on the base shape of the current
\* particle: flags.set_val_flag_name("IsEnableTexScrollAnim", val).
Heap_enable_texture_scroll_anim ==
    \E row \in 1 .. Len(cont.particles) :
      LET base_shape == RefOf(cont.heap, cont.particles[row], "base_shape")
          flags == cont.heap[base_shape].refs[1]
          \* the check box is toggled: val is what the flag is not
          val == IF IsEnableTexScrollAnim(<<cont.heap[flags].obj>>) THEN 0 ELSE 1
      IN /\ CanStep
         /\ base_shape # NoRef
         /\ cont' = [cont EXCEPT !.heap[flags].obj =
                        set_val_flag("Flag32", @,
                                     get_flag(BaseShapeFlags, "IsEnableTexScrollAnim"),
                                     val)]
         /\ contObs' = Stepped("enable_texture_scroll_anim", row)
         /\ UNCHANGED notContVars

\* keyType.currentIndexChanged: get_current_key_block().key_type.set_val(s).
Heap_set_key_type ==
    \E row \in 1 .. Len(cont.particles), s \in {5} :
      \E k \in 1 .. Len(cont.heap[RefOf(cont.heap, cont.particles[row], "key_blocks")].refs) :
        LET key_block == cont.heap[RefOf(cont.heap, cont.particles[row], "key_blocks")].refs[k]
        IN /\ CanStep
           /\ cont' = [cont EXCEPT !.heap[key_block].obj.vals[1] =
                          U8Chunk_set_val(BigOf(@), BigOf(s)).lo]
           /\ contObs' = Stepped("set_key_type", row)
           /\ UNCHANGED notContVars

\* add_keyframe: get_current_key_block().keyframes.append(JPAKeyframe()).
Heap_add_keyframe ==
    \E row \in 1 .. Len(cont.particles) :
      \E k \in 1 .. Len(cont.heap[RefOf(cont.heap, cont.particles[row], "key_blocks")].refs) :
        LET key_block == cont.heap[RefOf(cont.heap, cont.particles[row], "key_blocks")].refs[k]
            keyframes == cont.heap[key_block].refs[1]
            keyframe == Cell("keyframe", DefaultVals(JPAKeyframe_auto_chunks), <<>>)
        IN /\ CanStep
           /\ cont' = Collected([cont EXCEPT !.heap =
                                     [Append(@, keyframe) EXCEPT ![keyframes].refs =
                                         Append(@, Len(cont.heap) + 1)]])
           /\ contObs' = Stepped("add_keyframe", row)
           /\ UNCHANGED notContVars

CopyNext ==
    \/ Heap_unpack
    \/ Heap_clone_particles
    \/ copy_particle
    \/ replace_particle
    \/ Heap_enable_texture_scroll_anim
    \/ Heap_set_key_type
    \/ Heap_add_keyframe

SpecCopy == CopyInit /\ [][CopyNext]_vars

\* No object is reached from two of the held particles.
NoSharedObject(c) ==
    \A i, j \in 1 .. Len(Held(c)) :
        i # j => Reachable(c.heap, Held(c)[i]) \cap Reachable(c.heap, Held(c)[j]) = {}

\* The flag word the conditional fields of a base shape refer to is the
\* flag word of that base shape.
OwnFlagWord(c) ==
    \A i \in 1 .. Len(Held(c)) :
        \A x \in Reachable(c.heap, Held(c)[i]) :
            c.heap[x].kind = "BSP1" => c.heap[x].refs[2] = c.heap[x].refs[1]

\* The bytes packed from particle r of editor c are those packed from
\* particle q of editor d.  Particles that hold equal values under the same
\* texture table pack to the same bytes; the bytes are packed and compared
\* for the others.
SamePacked(c, r, d, q) ==
    \/ /\ ResourceOf(c.heap, r) = ResourceOf(d.heap, q)
       /\ c.texture_name_to_id = d.texture_name_to_id
    \/ PackedParticle(c, r) = PackedParticle(d, q)

\* What a step of the editor leaves alone: the bytes packed from every
\* particle of the list but the target of the operation, the bytes packed
\* from the copied particle unless a new copy took its place, and the index
\* of a particle that was replaced.
OthersUnchanged ==
    /\ \A i \in 1 .. Len(cont.particles) :
           i # contObs'.target =>
               SamePacked(cont', cont'.particles[i], cont, cont.particles[i])
    /\ (contObs'.op # "copy_particle" /\ cont.copied_particle # NoRef) =>
           SamePacked(cont', cont'.copied_particle, cont, cont.copied_particle)
    /\ contObs'.op = "replace_particle" =>
           cont'.heap[cont'.particles[contObs'.target]].obj.index
               = cont.heap[cont.particles[contObs'.target]].obj.index

\* C29: after replace_with and after a deep copy (clone_particles,
\* copy_particle) no two particles share a list, chunk, keyframe or flag
\* word; an operation on one particle leaves the bytes packed from every
\* other held particle as they were; the conditional fields of every copy
\* are governed by the flag word of that copy; and replace_with leaves the
\* index of its target as it was.
C29_CopiesIndependent ==
    [][NoSharedObject(cont') /\ OwnFlagWord(cont') /\ OthersUnchanged]_vars

\* C29's case: a particle that was replaced with the copy of another one
\* has a keyframe added, and its bytes are no longer those of the copy.
C29_Witness ==
    /\ contObs.op = "add_keyframe"
    /\ contObs.target = 2
    /\ cont.copied_particle # NoRef
    /\ Len(cont.heap[RefOf(cont.heap, cont.particles[2], "field_blocks")].refs) = 1
    /\ cont.heap[cont.particles[2]].obj.index = 4
    /\ cont.heap[cont.copied_particle].obj.index = 3
    /\ PackedParticle(cont, cont.particles[2]).ok
    /\ PackedParticle(cont, cont.copied_particle).ok
    /\ Len(PackedParticle(cont, cont.particles[2]).bytes)
           = Len(PackedParticle(cont, cont.copied_particle).bytes) + 16

\* The stash of chunk c is the body that pack encodes for it, and a pack
\* of the chunk detects no change.
Stashed(body, c) ==
    /\ body.ok
    /\ c.binary_data = body.bytes
    /\ ~ChangeDetected(c.binary_data, body.bytes)

StashedAll(magic, list) ==
    \A i \in 1 .. Len(list) :
        Stashed(JPAStandardChunk_binary_data(magic, list[i]), list[i])

\* Every chunk of resource r holds the unpadded body of its pack.
StashIsBody(r) ==
    /\ StashedAll("BEM1", r.dynamics_block)
    /\ StashedAll("FLD1", r.field_blocks)
    /\ \A i \in 1 .. Len(r.key_blocks) :
           Stashed(JPAKeyBlock_binary_data(r.key_blocks[i]), r.key_blocks[i])
    /\ \A i \in 1 .. Len(r.base_shape) :
           Stashed(JPABaseShape_binary_data(r.base_shape[i]), r.base_shape[i])
    /\ StashedAll("ESP1", r.extra_shape)
    /\ StashedAll("SSP1", r.child_shape)
    /\ StashedAll("ETX1", r.ex_tex_shape)

\* C30: when pack has returned, every chunk of the resource holds as its
\* stash the unpadded body that was encoded, and a second pack with no
\* mutation in between detects no change, returns the same bytes and
\* leaves the resource as it is.
C30_PackTwice ==
    (resObs.op = "pack" /\ resObs.ok) =>
        /\ StashIsBody(res)
        /\ With(JPAResource_pack(res), LAMBDA again :
               again.ok /\ again.bytes = resObs.out /\ again.res = res)

\* C30's case: a resource with a chunk of every type, two field blocks and
\* two key blocks was packed.
C30_Witness ==
    /\ resObs.op = "pack"
    /\ resObs.ok
    /\ Len(res.dynamics_block) = 1
    /\ Len(res.field_blocks) = 2
    /\ Len(res.key_blocks) = 2
    /\ Len(res.base_shape) = 1
    /\ Len(res.extra_shape) = 1
    /\ Len(res.child_shape) = 1
    /\ Len(res.ex_tex_shape) = 1
    /\ Len(resObs.out) > 0

=============================================================================
